---- MODULE Spec2Model ----
(***************************************************************************)
(* Results reconciliation of the tips-results-service.                     *)
(*                                                                         *)
(* The store is the relational store of app/models.py (race_results and    *)
(* tip_outcomes, with their uniqueness constraints).  Every reconciliation *)
(* pass runs in one SQLAlchemy session created by SessionLocal, which is   *)
(* configured with autoflush=False (app/database.py:21): a query or a      *)
(* Session.get inside a pass sees the committed rows only, never the rows  *)
(* the same pass has added and not yet flushed.                            *)
(*                                                                         *)
(* Text is modelled as a sequence of one-character strings, so that the    *)
(* track-name canonicalisation is computed as the code computes it.        *)
(***************************************************************************)
EXTENDS Integers, Sequences, FiniteSets, TLC

\* Python's None, by the type of the value it stands in for: a string, a
\* number, a text (sequence of characters) or a row id.
None == "None"
NoneNum == -1000
NoText == <<>>
NoId == <<>>

(***************************************************************************)
(* Python str operations used by _canonical_track_name.                    *)
(***************************************************************************)
Upper == <<"A","B","C","D","E","F","G","H","I","J","K","L","M",
           "N","O","P","Q","R","S","T","U","V","W","X","Y","Z">>
LowerL == <<"a","b","c","d","e","f","g","h","i","j","k","l","m",
            "n","o","p","q","r","s","t","u","v","w","x","y","z">>

\* the letters that have another case, with their counterparts
ToLower == [c \in { Upper[i] : i \in 1..26 } |->
              LowerL[CHOOSE i \in 1..26 : Upper[i] = c]]
ToUpper == [c \in { LowerL[i] : i \in 1..26 } |->
              Upper[CHOOSE i \in 1..26 : LowerL[i] = c]]

LowerChar(c) == IF c \in DOMAIN ToLower THEN ToLower[c] ELSE c

UpperChar(c) == IF c \in DOMAIN ToUpper THEN ToUpper[c] ELSE c

\* A text built character by character, as a finite sequence.
AsText(f) == SubSeq(f, 1, Len(f))

\* str.lower()
StrLower(s) == AsText([i \in 1..Len(s) |-> LowerChar(s[i])])

\* str.upper()
StrUpper(s) == AsText([i \in 1..Len(s) |-> UpperChar(s[i])])

RECURSIVE LStrip(_)
LStrip(s) == IF s # <<>> /\ Head(s) = " " THEN LStrip(Tail(s)) ELSE s

RECURSIVE RStrip(_)
RStrip(s) ==
    IF s # <<>> /\ s[Len(s)] = " " THEN RStrip(SubSeq(s, 1, Len(s) - 1)) ELSE s

\* str.strip()
StrStrip(s) == RStrip(LStrip(s))

\* str.startswith(p)
StartsWith(s, p) == Len(p) <= Len(s) /\ SubSeq(s, 1, Len(p)) = p

\* str.endswith(p)
EndsWith(s, p) ==
    Len(p) <= Len(s) /\ SubSeq(s, Len(s) - Len(p) + 1, Len(s)) = p

\* p in s
Contains(s, p) ==
    \E i \in 1..(Len(s) - Len(p) + 1) : SubSeq(s, i, i + Len(p) - 1) = p

\* str.replace(p, r) for a non-empty p: every non-overlapping occurrence,
\* left to right
RECURSIVE StrReplace(_, _, _)
StrReplace(s, p, r) ==
    LET at == { i \in 1..(Len(s) - Len(p) + 1) :
                    SubSeq(s, i, i + Len(p) - 1) = p }
    IN  IF at = {} THEN s
        ELSE LET i == CHOOSE k \in at : \A j \in at : k <= j
             IN  SubSeq(s, 1, i - 1) \o r \o
                 StrReplace(SubSeq(s, i + Len(p), Len(s)), p, r)

\* re.sub(r"[-,/]", " ", s)
SubSeparators(s) ==
    AsText([i \in 1..Len(s) |-> IF s[i] \in {"-", ",", "/"} THEN " " ELSE s[i]])

\* re.sub(r"\s+", " ", s): of every run of spaces the first one is kept
CollapseSpaces(s) ==
    LET keep == { i \in 1..Len(s) :
                    ~(s[i] = " " /\ i > 1 /\ s[i - 1] = " ") }
        nth(k) == CHOOSE i \in keep :
                    Cardinality({ j \in keep : j <= i }) = k
    IN  AsText([k \in 1..Cardinality(keep) |-> s[nth(k)]])

\* " ".join(s.split())
JoinSplit(s) == CollapseSpaces(StrStrip(s))

(***************************************************************************)
(* results_daily_job._canonical_track_name                                 *)
(***************************************************************************)
sponsors == <<
    <<"s","p","o","r","t","s","b","e","t">>,
    <<"l","a","d","b","r","o","k","e","s">>,
    <<"b","e","t","3","6","5">>,
    <<"p","i","c","k","l","e","b","e","t">>,
    <<"t","h","o","m","a","s"," ","f","a","r","m","s">>,
    <<"a","q","u","i","s"," ","p","a","r","k">>,
    <<"a","q","u","i","s">>,
    <<"t","a","b","t","o","u","c","h">>,
    <<"t","a","b"," ">> >>

junk_words == <<
    <<"r","c">>,
    <<"r","a","c","e","c","o","u","r","s","e">>,
    <<"r","a","c","e","w","a","y">>,
    <<"r","a","c","e"," ","c","l","u","b">>,
    <<"r","a","c","e"," ","c","l","u","b"," ","i","n","c">>,
    <<"r","a","c","e"," ","c","l","u","b"," ",
      "i","n","c","o","r","p","o","r","a","t","e","d">>,
    <<"p","a","r","k">>,
    <<"g","h">> >>

\* for sp in sponsors: s = s.replace(sp, "")
RECURSIVE StripSponsors(_, _)
StripSponsors(s, i) ==
    IF s = <<>> \/ i > Len(sponsors) THEN s
    ELSE StripSponsors(StrReplace(s, sponsors[i], <<>>), i + 1)

\* the body of "for jw in junk_words" for one junk word
StripSuffix(s, p) ==
    IF EndsWith(s, p) THEN SubSeq(s, 1, Len(s) - Len(p)) ELSE s

StripPrefix(s, p) ==
    IF StartsWith(s, p) THEN SubSeq(s, Len(p) + 1, Len(s)) ELSE s

StripJunkWord(s, jw) ==
    StripPrefix(
        StripSuffix(StrReplace(s, <<" ">> \o jw \o <<" ">>, <<" ">>),
                    <<" ">> \o jw),
        jw \o <<" ">>)

RECURSIVE StripJunkWords(_, _)
StripJunkWords(s, i) ==
    IF s = <<>> \/ i > Len(junk_words) THEN s
    ELSE StripJunkWords(StripJunkWord(s, junk_words[i]), i + 1)

\* the rules for single tracks that end the function
TrackVariants(s) ==
        IF StartsWith(s, <<"s","o","u","t","h","s","i","d","e"," ",
                           "c","r","a","n","b","o","u","r","n","e">>)
        THEN <<"c","r","a","n","b","o","u","r","n","e">>
        ELSE IF StartsWith(s, <<"s","o","u","t","h","s","i","d","e"," ",
                                "p","a","k","e","n","h","a","m">>)
        THEN <<"p","a","k","e","n","h","a","m">>
        ELSE IF Contains(s, <<"y","a","r","r","a"," ",
                              "v","a","l","l","e","y">>)
        THEN <<"y","a","r","r","a"," ","g","l","e","n">>
        ELSE IF Contains(s, <<"p","o","r","t"," ",
                              "l","i","n","c","o","l","n">>)
        THEN <<"p","o","r","t"," ","l","i","n","c","o","l","n">>
        ELSE IF StartsWith(s, <<"m","t"," ">>)
        THEN <<"m","o","u","n","t"," ">> \o SubSeq(s, 4, Len(s))
        ELSE IF s = <<"d","a","r","w","i","n">>
        THEN <<"f","a","n","n","i","e"," ","b","a","y">>
        ELSE s

_canonical_track_name(raw) ==
    IF raw = <<>> THEN <<>>
    ELSE TrackVariants(
            JoinSplit(
              StripJunkWords(
                StripSponsors(
                  CollapseSpaces(SubSeparators(StrLower(StrStrip(raw)))),
                  1),
                1)))

(***************************************************************************)
(* The world of the model: the meetings, races and tips of app/models.py   *)
(* that exist before any reconciliation pass runs.  Prices are in cents.   *)
(***************************************************************************)
RosehillGardens ==
    <<"R","o","s","e","h","i","l","l"," ","G","a","r","d","e","n","s">>
Rosehill == <<"R","o","s","e","h","i","l","l">>
SportsbetBallarat ==
    <<"S","p","o","r","t","s","b","e","t"," ","B","a","l","l","a","r","a","t">>
Ballarat == <<"B","a","l","l","a","r","a","t">>
VIC == <<"V","I","C">>

\* The track names that occur in the stored meetings and in the feeds, and
\* the value of _canonical_track_name on each of them.
TrackNames == {RosehillGardens, Rosehill, SportsbetBallarat, Ballarat}
CanonicalNames == {<<t, _canonical_track_name(t)>> : t \in TrackNames}
canon(t) == (CHOOSE p \in CanonicalNames : p[1] = t)[2]

\* ordinal dates of the model
Dates == {1, 2}

Meetings == {
    [id |-> "m1", date |-> 1, track_name |-> RosehillGardens, state |-> VIC,
     pf_meeting_id |-> 101],
    [id |-> "m2", date |-> 1, track_name |-> SportsbetBallarat, state |-> VIC,
     pf_meeting_id |-> 102] }

Races == {
    [id |-> "r1", meeting_id |-> "m1", race_number |-> 3],
    [id |-> "r2", meeting_id |-> "m2", race_number |-> 3] }

Tips == { [id |-> "t1", race_id |-> "r1", tab_number |-> 4] }

\* the longest feed (rows of one fetch, runners of one race) the model draws
MaxFeed == 2

SeqsUpTo(S, n) == UNION { [1..k -> S] : k \in 0..n }

\* every ordering of a finite set (the row order of a query without ORDER BY)
Orderings(S) ==
    { q \in [1..Cardinality(S) -> S] : \A e \in S : \E i \in DOMAIN q : q[i] = e }

(***************************************************************************)
(* The session of one pass (database.SessionLocal, autoflush=False).       *)
(*   rr, to         persistent rows as the session's identity map holds    *)
(*                  them: the committed rows with this pass's assignments  *)
(*   new_rr, new_to objects passed to db.add() and not yet flushed; no     *)
(*                  query and no Session.get returns them                  *)
(*   writes         the outcome assignments of the pass: the tip, whether  *)
(*                  the source result was reported scratched, the status   *)
(* A race_result reference of an outcome is an id, NoId, or <<"new", i>>   *)
(* for the i-th pending RaceResult (relationship assignment, resolved by   *)
(* the flush).                                                             *)
(***************************************************************************)
OpenSession(store) ==
    [rr |-> store.rr, to |-> store.to, new_rr |-> <<>>, new_to |-> <<>>,
     writes |-> {}]

ResultKey(r) == <<r.provider, r.race_id, r.tab_number>>

\* models.RaceResult: uq_result_race_provider_tab, tested by the INSERT
DupResultInsert(sess) ==
    \E i \in DOMAIN sess.new_rr :
        \/ \E p \in sess.rr : ResultKey(p) = ResultKey(sess.new_rr[i])
        \/ \E j \in 1..(i - 1) :
              ResultKey(sess.new_rr[j]) = ResultKey(sess.new_rr[i])

\* models.TipOutcome: primary key tip_id, tested by the INSERT
DupOutcomeInsert(sess) ==
    \E i \in DOMAIN sess.new_to :
        \/ \E p \in sess.to : p.tip_id = sess.new_to[i].tip_id
        \/ \E j \in 1..(i - 1) : sess.new_to[j].tip_id = sess.new_to[i].tip_id

\* The id a flushed RaceResult gets (models.RaceResult.id, a fresh uuid4).
\* The table never holds two rows of one key and no row is ever deleted,
\* so the fresh id is named after the key of its row.
NewId(r) == ResultKey(r)

ResolveRef(sess, ref) ==
    IF ref # NoId /\ ref[1] = "new" THEN NewId(sess.new_rr[ref[2]]) ELSE ref

FlushOutcome(sess, o) ==
    [o EXCEPT !.race_result_id = ResolveRef(sess, @)]

\* Session.commit(): flush the pending objects (race_results before
\* tip_outcomes, the foreign-key order), then commit.  An INSERT that breaks
\* a uniqueness constraint raises IntegrityError and nothing of the
\* transaction is kept.
Commit(store, sess) ==
    IF DupResultInsert(sess) \/ DupOutcomeInsert(sess)
    THEN [ok |-> FALSE, store |-> store]
    ELSE [ok |-> TRUE,
          store |->
            [rr |-> sess.rr \cup
                    { [sess.new_rr[i] EXCEPT !.id = NewId(sess.new_rr[i])] :
                        i \in DOMAIN sess.new_rr },
             to |-> { FlushOutcome(sess, o) : o \in sess.to } \cup
                    { FlushOutcome(sess, sess.new_to[i]) :
                        i \in DOMAIN sess.new_to }]]

(***************************************************************************)
(* ra_results_client.RAResultsClient.fetch_results_for_date                *)
(***************************************************************************)
\* a value of the payload that int() and float() reject (a text that is
\* not a number)
NotANumber == -2000

\* _get_int / _get_num on a value that is a number, absent, or rejected by
\* the conversion (TypeError / ValueError are caught: the next key is tried,
\* and the payload carries one key)
_get_int(v) == IF v = NotANumber THEN NoneNum ELSE v
_get_num(v) == IF v = NotANumber THEN NoneNum ELSE v

HorseName == "Winx"

ParseItem(item) ==
    [state |-> StrUpper(item.state),
     track |-> item.track,
     race_no |-> _get_int(item.race_no),
     tab_number |-> _get_int(item.horse_number),
     horse_name |-> item.horse_name,
     finishing_pos |-> _get_int(item.finishing_pos),
     is_scratched |-> item.is_scratched,
     margin_lens |-> _get_num(item.margin_lens),
     starting_price |-> _get_num(item.starting_price)]

ItemKept(item) ==
    /\ item.state # NoText
    /\ item.track # NoText
    /\ _get_int(item.race_no) # NoneNum
    /\ _get_int(item.horse_number) # NoneNum

RECURSIVE ParseItems(_)
ParseItems(items) ==
    IF items = <<>> THEN <<>>
    ELSE (IF ItemKept(Head(items)) THEN <<ParseItem(Head(items))>> ELSE <<>>)
         \o ParseItems(Tail(items))

\* resp is the crawler's answer: ok = FALSE for a network error, a timeout
\* or an error status (httpx raises from get / raise_for_status), else the
\* list of items.  item.get on an item that is not an object raises
\* AttributeError.  Nothing in the method catches an exception.
RAResultsClient_fetch_results_for_date(resp) ==
    IF ~resp.ok
    THEN [raised |-> "HTTPError", rows |-> <<>>]
    ELSE IF \E i \in DOMAIN resp.items : ~resp.items[i].obj
    THEN [raised |-> "AttributeError", rows |-> <<>>]
    ELSE [raised |-> None, rows |-> ParseItems(resp.items)]

(***************************************************************************)
(* results_daily_job                                                       *)
(***************************************************************************)
_status_from_result(rr) ==
    IF rr.is_scratched THEN "SCRATCHED"
    ELSE IF rr.finishing_pos = NoneNum THEN "NO_RESULT"
    ELSE "RUN"

_tip_outcome_status(rr) ==
    IF rr.is_scratched THEN "SCRATCHED"
    ELSE IF rr.finishing_pos = NoneNum THEN "NO_RESULT"
    ELSE IF rr.finishing_pos = 1 THEN "WIN"
    ELSE IF rr.finishing_pos \in {2, 3} THEN "PLACE"
    ELSE "LOSE"

\* f"{rr.margin_lens:.2f}L" if rr.margin_lens is not None else None
MarginText(margin_lens) ==
    IF margin_lens = NoneNum THEN NoText ELSE <<margin_lens, "L">>

\* _build_meeting_race_maps: meeting_map's key of a Meeting
MeetingKey(m) == <<StrUpper(m.state), canon(m.track_name)>>

\* a variant of the tips query that matches on the runner number alone
TipsOfRunner_AnyRace(race_id, tab_number) ==
    { t \in Tips : t.tab_number = tab_number }

\* db.query(Tip).filter(Tip.race_id == race.id, Tip.tab_number == tab).all()
TipsOfRunner(race_id, tab_number) ==
    { t \in Tips : /\ t.race_id = race_id
                   /\ t.tab_number = tab_number }

\* the lookup-then-add / lookup-then-assign of one TipOutcome
UpsertOutcome(sess, tip_id, provider, rr_ref, pos, status, sp, scratched) ==
    LET found == { o \in sess.to : o.tip_id = tip_id }
        rec == [tip_id |-> tip_id, provider |-> provider,
                race_result_id |-> rr_ref, finish_position |-> pos,
                outcome_status |-> status, starting_price |-> sp]
        w == [tip_id |-> tip_id, scratched |-> scratched, status |-> status]
    IN  IF found = {}
        THEN [sess EXCEPT !.new_to = Append(@, rec), !.writes = @ \cup {w}]
        ELSE [sess EXCEPT !.to = (@ \ found) \cup {rec},
                          !.writes = @ \cup {w}]

\* "for tip in tips" around it
RECURSIVE UpsertOutcomes(_, _, _, _, _, _, _, _)
UpsertOutcomes(sess, todo, provider, rr_ref, pos, status, sp, scratched) ==
    IF todo = {} THEN sess
    ELSE LET tip == CHOOSE t \in todo : TRUE
         IN  UpsertOutcomes(
                UpsertOutcome(sess, tip.id, provider, rr_ref, pos, status, sp,
                              scratched),
                todo \ {tip}, provider, rr_ref, pos, status, sp, scratched)

\* "Upsert RaceResult" and "Wire into TipOutcome" for a row whose race is
\* found
UpsertRaRow(sess, race, rr) ==
    LET found == { x \in sess.rr : /\ x.provider = "RA"
                                   /\ x.race_id = race.id
                                   /\ x.tab_number = rr.tab_number }
        row(id) ==
            [id |-> id, provider |-> "RA", race_id |-> race.id,
             tab_number |-> rr.tab_number,
             horse_name |-> rr.horse_name,
             finish_position |-> rr.finishing_pos,
             status |-> _status_from_result(rr),
             margin_text |-> MarginText(rr.margin_lens),
             starting_price |-> rr.starting_price]
        sess1 ==
            IF found = {}
            THEN [sess EXCEPT !.new_rr = Append(@, row(NoId))]
            ELSE [sess EXCEPT !.rr =
                    (@ \ found) \cup
                    { row((CHOOSE x \in found : TRUE).id) }]
        ref == IF found = {}
               THEN <<"new", Len(sess.new_rr) + 1>>
               ELSE (CHOOSE x \in found : TRUE).id
        tips == TipsOfRunner(race.id, rr.tab_number)
    IN  UpsertOutcomes(sess1, tips, "RA", ref, rr.finishing_pos,
                       _tip_outcome_status(rr), rr.starting_price,
                       rr.is_scratched)

\* race_map.get((meeting.id, rr.race_no))
RaceOfRow(sess, meeting, rr) ==
    LET rs == { r \in Races : /\ r.meeting_id = meeting.id
                              /\ r.race_number = rr.race_no }
    IN  IF rs = {} THEN sess
        ELSE UpsertRaRow(sess, CHOOSE r \in rs : TRUE, rr)

\* the body of "for rr in ra_rows" of _apply_results_for_date
ApplyRaRow(sess, d, rr) ==
    LET ms == { m \in Meetings :
                  /\ m.date = d
                  /\ MeetingKey(m) = <<StrUpper(rr.state), canon(rr.track)>> }
    IN  IF ms = {} THEN sess
        ELSE RaceOfRow(sess, CHOOSE m \in ms : TRUE, rr)

RECURSIVE _apply_results_for_date(_, _, _)
_apply_results_for_date(sess, d, ra_rows) ==
    IF ra_rows = <<>> THEN sess
    ELSE _apply_results_for_date(ApplyRaRow(sess, d, Head(ra_rows)), d,
                                 Tail(ra_rows))

\* What the last operation did, for the properties to refer to:
\*   raised      the exception that reached the caller, or None
\*   fetched     the dates whose fetch returned
\*   empty       the dates whose fetch returned no row
\*   committed   the dates whose transaction was committed
\*   rows        the distinct rows the fetches returned
\*   repeated    the rows a fetch returned more than once
\*   races       the races whose PF post-race request was made
\*   failed      the PF requests that gave nothing: "skynet" when the prices
\*               request failed or was empty, the races whose post-race
\*               request failed
\*   dup_result  an INSERT of a RaceResult whose key is already present
\*   dup_outcome an INSERT of a TipOutcome whose tip_id is already present
\*   writes      the outcome assignments of the passes
NoLog ==
    [raised |-> None, fetched |-> <<>>, empty |-> {}, committed |-> <<>>,
     rows |-> {},
     repeated |-> {}, races |-> <<>>, failed |-> {},
     dup_result |-> FALSE, dup_outcome |-> FALSE, writes |-> {}]

Range(q) == { q[i] : i \in DOMAIN q }

Repeated(q) == { q[i] : i \in { k \in DOMAIN q :
                                  \E j \in DOMAIN q : j # k /\ q[j] = q[k] } }

\* the flush of a pass, as the log records it: race_results are inserted
\* before tip_outcomes, and the first failing INSERT ends the flush
LogFlush(log, sess) ==
    [log EXCEPT !.dup_result = @ \/ DupResultInsert(sess),
                !.dup_outcome = @ \/ (/\ ~DupResultInsert(sess)
                                      /\ DupOutcomeInsert(sess)),
                !.writes = @ \cup sess.writes]

\* "db.commit()" of a pass for date d: an IntegrityError of the flush
\* reaches the caller
CommitPass(store, d, log, sess) ==
    IF Commit(store, sess).ok
    THEN [store |-> Commit(store, sess).store,
          log |-> [LogFlush(log, sess) EXCEPT !.committed = <<d>>]]
    ELSE [store |-> store,
          log |-> [LogFlush(log, sess) EXCEPT !.raised = "IntegrityError"]]

\* the "while d <= date_to" loop of run_results_for_window.  An exception of
\* the fetch or of the commit leaves the loop through "finally" (the session
\* is closed, the open transaction rolled back) and reaches the caller.
RECURSIVE RunDates(_, _, _, _, _)

\* "db.commit()" of date d, then the next date
CommitDate(store, d, date_to, resp, log, applied) ==
    IF ~Commit(store, applied).ok
    THEN [store |-> store,
          log |-> [LogFlush(log, applied) EXCEPT !.raised = "IntegrityError"]]
    ELSE RunDates(Commit(store, applied).store, d + 1, date_to, resp,
                  [LogFlush(log, applied) EXCEPT !.committed = Append(@, d)])

\* a variant that gives the tips of a date without rows a NO_RESULT outcome
ApplyDate_Fabricate(store, d, date_to, resp, log, f) ==
    IF f.raised # None
    THEN [store |-> store, log |-> [log EXCEPT !.raised = f.raised]]
    ELSE IF f.rows = <<>>
    THEN RunDates([store EXCEPT !.to = @ \cup
                     { [tip_id |-> t.id, provider |-> "RA",
                        race_result_id |-> NoId, finish_position |-> NoneNum,
                        outcome_status |-> "NO_RESULT",
                        starting_price |-> NoneNum] :
                         t \in { u \in Tips :
                                   \A o \in store.to : o.tip_id # u.id } }],
                  d + 1, date_to, resp,
                  [log EXCEPT !.fetched = Append(@, d),
                              !.empty = @ \cup {d}])
    ELSE CommitDate(store, d, date_to, resp,
                    [log EXCEPT !.fetched = Append(@, d),
                                !.rows = @ \cup Range(f.rows),
                                !.repeated = @ \cup Repeated(f.rows)],
                    _apply_results_for_date(OpenSession(store), d, f.rows))

\* "if rows:" of date d
ApplyDate(store, d, date_to, resp, log, f) ==
    IF f.raised # None
    THEN [store |-> store, log |-> [log EXCEPT !.raised = f.raised]]
    ELSE IF f.rows = <<>>
    THEN RunDates(store, d + 1, date_to, resp,
                  [log EXCEPT !.fetched = Append(@, d),
                              !.empty = @ \cup {d}])
    ELSE CommitDate(store, d, date_to, resp,
                    [log EXCEPT !.fetched = Append(@, d),
                                !.rows = @ \cup Range(f.rows),
                                !.repeated = @ \cup Repeated(f.rows)],
                    _apply_results_for_date(OpenSession(store), d, f.rows))

RunDates(store, d, date_to, resp, log) ==
    IF d > date_to THEN [store |-> store, log |-> log]
    ELSE ApplyDate(store, d, date_to, resp, log,
                   RAResultsClient_fetch_results_for_date(resp[d]))

run_results_for_window(store, date_from, date_to, resp) ==
    IF date_to < date_from THEN [store |-> store, log |-> NoLog]
    ELSE RunDates(store, date_from, date_to, resp, NoLog)

(***************************************************************************)
(* pf_results                                                              *)
(***************************************************************************)
\* "a or b or c" over keys of which only the first is present: a falsy
\* number (0) gives None
OrNone(v) == IF v = 0 THEN NoneNum ELSE v

\* _to_int / _to_decimal on a value that is a number or absent
_to_int(value) == IF value = NoneNum THEN NoneNum ELSE value
_to_decimal(value) == IF value = NoneNum THEN NoneNum ELSE value

_classify_outcome(pos_fin) ==
    IF pos_fin = NoneNum \/ pos_fin <= 0 THEN "UNKNOWN"
    ELSE IF pos_fin = 1 THEN "WIN"
    ELSE IF pos_fin \in {2, 3} THEN "PLACE"
    ELSE "LOSE"

\* routes_ui_overview._classify_outcome_from_pos
_classify_outcome_from_pos(pos_fin) ==
    IF pos_fin = NoneNum \/ pos_fin <= 0 THEN "PENDING"
    ELSE IF pos_fin = 1 THEN "WIN"
    ELSE IF pos_fin \in {2, 3} THEN "PLACE"
    ELSE "LOSE"

_parse_runner_tab_no(r) == _to_int(OrNone(r.tabNo))

\* <<finish_position, status>> of a PF runner row
_parse_runner_result(r) ==
    LET raw_pos == OrNone(r.posFin)
        raw_status == r.status
        pos_fin == _to_int(raw_pos)
    IN  <<pos_fin,
          IF raw_status = ""
          THEN (IF pos_fin # NoneNum THEN "FIN" ELSE "")
          ELSE raw_status>>

\* _pf_get_json catches every exception of the request and returns None;
\* _fetch_pf_post_race then returns no runners
_fetch_pf_post_race(resp) == IF ~resp.ok THEN <<>> ELSE resp.runners

\* (meetingId, raceNumber, tabNumber) -> tabCurrentPrice; empty when the
\* request failed; a later row of a key replaces an earlier one
_fetch_skynet_prices_for_date(resp) ==
    IF ~resp.ok THEN <<>>
    ELSE LET valid == { i \in DOMAIN resp.rows :
                          /\ _to_int(resp.rows[i].meetingId) \notin {NoneNum, 0}
                          /\ _to_int(resp.rows[i].raceNumber) \notin {NoneNum, 0}
                          /\ _to_int(resp.rows[i].tabNumber) \notin {NoneNum, 0}
                          /\ _to_decimal(resp.rows[i].tabCurrentPrice)
                                # NoneNum }
             key(i) == <<resp.rows[i].meetingId, resp.rows[i].raceNumber,
                         resp.rows[i].tabNumber>>
         IN  [k \in { key(i) : i \in valid } |->
                LET j == CHOOSE m \in valid :
                            /\ key(m) = k
                            /\ \A n \in valid : key(n) = k => n <= m
                IN  _to_decimal(resp.rows[j].tabCurrentPrice)]

\* dict.get(key)
PriceOf(price_map, k) ==
    IF k \in DOMAIN price_map THEN price_map[k] ELSE NoneNum

\* RaceResult.status values that report a scratching (models.py: "FREE
\* TEXT: RUN, SCRATCHED, LATE SCR, ..."; PF's runner status 'SCR')
ScratchedStatus(st) == st \in {"SCRATCHED", "SCR"}

\* a variant that keeps, of the rows of one (race, tab), the row met first
RECURSIVE BuildRrIndex_KeepFirst(_, _, _)
BuildRrIndex_KeepFirst(rr_rows, i, rr_index) ==
    IF i > Len(rr_rows) THEN rr_index
    ELSE BuildRrIndex_KeepFirst(
            rr_rows, i + 1,
            IF \E e \in rr_index : /\ e.race_id = rr_rows[i].race_id
                                   /\ e.tab_number = rr_rows[i].tab_number
            THEN rr_index ELSE rr_index \cup {rr_rows[i]})

\* the "for rr in rr_rows" loop that builds rr_index: of the rows of one
\* (race, tab) it keeps PF, else RA, else the row met last
RECURSIVE BuildRrIndex(_, _, _)
BuildRrIndex(rr_rows, i, rr_index) ==
    IF i > Len(rr_rows) THEN rr_index
    ELSE
    LET rr == rr_rows[i]
        ex == { e \in rr_index : /\ e.race_id = rr.race_id
                                 /\ e.tab_number = rr.tab_number }
        existing == CHOOSE e \in ex : TRUE
        keep == \/ existing.provider = rr.provider
                \/ existing.provider = "PF"
                \/ existing.provider = "RA" /\ rr.provider # "PF"
        nxt == IF ex = {} THEN rr_index \cup {rr}
               ELSE IF keep THEN rr_index
               ELSE (rr_index \ ex) \cup {rr}
    IN  BuildRrIndex(rr_rows, i + 1, nxt)

\* a variant that gives every tip with a stored result a new outcome, in
\* place of the one it has
RECURSIVE AttachTips_Replace(_, _, _)
AttachTips_Replace(sess, todo, rr_index) ==
    IF todo = {} THEN sess
    ELSE
    LET tip == CHOOSE t \in todo : TRUE
        hit == { e \in rr_index : /\ e.race_id = tip.race_id
                                  /\ e.tab_number = tip.tab_number }
        rr == CHOOSE e \in hit : TRUE
        nxt == IF hit = {} THEN sess
               ELSE [sess EXCEPT
                       !.to = { o \in @ : o.tip_id # tip.id },
                       !.new_to = Append(@,
                           [tip_id |-> tip.id, provider |-> rr.provider,
                            race_result_id |-> rr.id,
                            finish_position |-> rr.finish_position,
                            outcome_status |->
                                _classify_outcome(rr.finish_position),
                            starting_price |-> rr.starting_price])]
    IN  AttachTips_Replace(nxt, todo \ {tip}, rr_index)

\* the "for tip in tips" loop of the attach
RECURSIVE AttachTips(_, _, _)
AttachTips(sess, todo, rr_index) ==
    IF todo = {} THEN sess
    ELSE
    LET tip == CHOOSE t \in todo : TRUE
        hit == { e \in rr_index : /\ e.race_id = tip.race_id
                                  /\ e.tab_number = tip.tab_number }
        rr == CHOOSE e \in hit : TRUE
        status == _classify_outcome(rr.finish_position)
        nxt == IF (\E o \in sess.to : o.tip_id = tip.id) \/ hit = {}
               THEN sess
               ELSE [sess EXCEPT
                       !.new_to = Append(@,
                           [tip_id |-> tip.id, provider |-> rr.provider,
                            race_result_id |-> rr.id,
                            finish_position |-> rr.finish_position,
                            outcome_status |-> status,
                            starting_price |-> rr.starting_price]),
                       !.writes = @ \cup
                           {[tip_id |-> tip.id,
                             scratched |-> ScratchedStatus(rr.status),
                             status |-> status]}]
    IN  AttachTips(nxt, todo \ {tip}, rr_index)

TipsOfDate(d) ==
    { t \in Tips : \E r \in Races, m \in Meetings :
                      /\ t.race_id = r.id
                      /\ r.meeting_id = m.id
                      /\ m.date = d }

\* the rows the rr_rows query returns, in some order
RrRowsOfDate(sess, d) ==
    { x \in sess.rr : \E t \in TipsOfDate(d) : x.race_id = t.race_id }

\* rr_rows: the query's rows in the order the database returned them
_attach_tip_outcomes_from_existing_results_for_date(sess, d, rr_rows) ==
    AttachTips(sess, TipsOfDate(d), BuildRrIndex(rr_rows, 1, {}))

\* the body of "for idx, runner in enumerate(runners)"
ApplyPfRunner(sess, meeting, race, runner, price_map) ==
    LET tab_no == _parse_runner_tab_no(runner)
        pr == _parse_runner_result(runner)
        pos_fin == pr[1]
        status == pr[2]
        sp == PriceOf(price_map,
                      <<meeting.pf_meeting_id, race.race_number, tab_no>>)
        found == { x \in sess.rr : /\ x.race_id = race.id
                                   /\ x.tab_number = tab_no
                                   /\ x.provider = "PF" }
        fresh == [id |-> NoId, provider |-> "PF", race_id |-> race.id,
                  tab_number |-> tab_no, horse_name |-> None,
                  finish_position |-> NoneNum, status |-> None,
                  margin_text |-> NoText, starting_price |-> NoneNum]
        upd(x) == [x EXCEPT
                     !.horse_name = IF runner.runnerName # None
                                    THEN runner.runnerName ELSE @,
                     !.finish_position = pos_fin,
                     !.starting_price = sp,
                     !.status = IF status # "" THEN status ELSE @]
        sess1 == IF found = {}
                 THEN [sess EXCEPT !.new_rr = Append(@, upd(fresh))]
                 ELSE [sess EXCEPT !.rr = (@ \ found) \cup
                                          { upd(x) : x \in found }]
        \* rr.id: the id of a persistent row, None before the flush
        rr_id == IF found = {} THEN NoId ELSE (CHOOSE x \in found : TRUE).id
        pf_tips == TipsOfRunner(race.id, tab_no)
    IN  IF tab_no = NoneNum THEN sess
        ELSE UpsertOutcomes(sess1, pf_tips, "PF", rr_id, pos_fin,
                            _classify_outcome(pos_fin), sp,
                            ScratchedStatus(status))

RECURSIVE ApplyPfRunners(_, _, _, _, _, _)
ApplyPfRunners(sess, meeting, race, runners, i, price_map) ==
    IF i > Len(runners) THEN sess
    ELSE ApplyPfRunners(
            ApplyPfRunner(sess, meeting, race, runners[i], price_map),
            meeting, race, runners, i + 1, price_map)

\* The races the import walks: the meetings of the date that have a
\* pf_meeting_id, the races of each by race_number.  Rows of two meetings
\* share no key, so one order of the meetings stands for all.
PfRaces(d) ==
    LET pairs == { <<m, r>> \in Meetings \X Races :
                      /\ m.date = d
                      /\ m.pf_meeting_id # NoneNum
                      /\ r.meeting_id = m.id }
    IN  CHOOSE q \in Orderings(pairs) :
            \A a, b \in DOMAIN q :
                (a < b /\ q[a][1].id = q[b][1].id) =>
                    /\ q[a][2].race_number <= q[b][2].race_number
                    /\ \A k \in a..b : q[k][1].id = q[a][1].id

\* "for meeting in meetings: for race in sorted(meeting.races)"; post[r] is
\* PF's answer to the post-race request of race r
RECURSIVE ImportRaces(_, _, _, _, _)
ImportRaces(sess, todo, i, post, price_map) ==
    IF i > Len(todo) THEN sess
    ELSE ImportRaces(
            ApplyPfRunners(sess, todo[i][1], todo[i][2],
                           _fetch_pf_post_race(post[todo[i][2].id]), 1,
                           price_map),
            todo, i + 1, post, price_map)

\* the requests of the import that gave nothing
FailedRequests(d, post, skynet_price_map) ==
    (IF skynet_price_map = <<>> THEN {"skynet"} ELSE {})
    \cup { PfRaces(d)[i][2].id :
             i \in { k \in DOMAIN PfRaces(d) : ~post[PfRaces(d)[k][2].id].ok } }

\* the import once the Skynet price map is fetched: the pre-attach, the
\* loop over the meetings and races, the commit
ImportWith(store, d, post, rr_rows, skynet_price_map) ==
    CommitPass(
        store, d,
        [NoLog EXCEPT
           !.fetched = <<d>>,
           !.races = [i \in DOMAIN PfRaces(d) |-> PfRaces(d)[i][2].id],
           !.failed = FailedRequests(d, post, skynet_price_map)],
        ImportRaces(
            _attach_tip_outcomes_from_existing_results_for_date(
                OpenSession(store), d, rr_rows),
            PfRaces(d), 1, post, skynet_price_map))

\* skynet: the answer to the Skynet prices request; rr_rows: the rows of
\* the attach query in the order the database returned them
import_pf_results_for_date(store, d, skynet, post, rr_rows) ==
    ImportWith(store, d, post, rr_rows,
               _fetch_skynet_prices_for_date(skynet))

\* the attach as a pass of its own (routes_cron.cron_fetch_pf_results, step
\* 5): commit when something was attached; an exception is caught there
AttachCommit(store, d, attached) ==
    IF attached.new_to = <<>> THEN [store |-> store, log |-> NoLog]
    ELSE IF Commit(store, attached).ok
    THEN [store |-> Commit(store, attached).store,
          log |-> [LogFlush(NoLog, attached) EXCEPT !.committed = <<d>>]]
    ELSE [store |-> store, log |-> LogFlush(NoLog, attached)]

AttachPass(store, d, rr_rows) ==
    AttachCommit(store, d,
                 _attach_tip_outcomes_from_existing_results_for_date(
                     OpenSession(store), d, rr_rows))

(***************************************************************************)
(* results_ra                                                              *)
(***************************************************************************)
\* every exception of the request is caught: no meetings
_fetch_ra_results_from_crawler(resp) ==
    IF ~resp.ok THEN <<>> ELSE resp.meetings

\* the stored Meeting / Race a payload entry is matched to (the payload
\* carries no ra_meetcode)
MeetingsFound(d, m) ==
    { x \in Meetings : /\ x.date = d
                       /\ x.track_name = m.track
                       /\ x.state = m.state }

RacesFound(meeting, rj) ==
    { x \in Races : /\ x.meeting_id = meeting.id
                    /\ x.race_number = rj.raceNo }

\* the body of "for runner in runners"
ApplyRaRunner(sess, race, runner) ==
    LET tab_number == OrNone(runner.tabNumber)
        finish_position == OrNone(runner.finishPosition)
        found == { x \in sess.rr : /\ x.provider = "RA"
                                   /\ x.race_id = race.id
                                   /\ x.tab_number = tab_number }
        fields(id) ==
            [id |-> id, provider |-> "RA", race_id |-> race.id,
             tab_number |-> tab_number, horse_name |-> runner.horseName,
             finish_position |-> finish_position,
             status |-> IF runner.status = "" THEN None ELSE runner.status,
             margin_text |-> NoText,
             starting_price |-> OrNone(runner.startingPrice)]
    IN  IF tab_number = NoneNum THEN sess
        ELSE IF found = {}
        THEN [sess EXCEPT !.new_rr = Append(@, fields(NoId))]
        ELSE [sess EXCEPT !.rr = (@ \ found) \cup
                                 { fields((CHOOSE x \in found : TRUE).id) }]

RECURSIVE ApplyRaRunners(_, _, _, _)
ApplyRaRunners(sess, race, runners, i) ==
    IF i > Len(runners) THEN sess
    ELSE ApplyRaRunners(ApplyRaRunner(sess, race, runners[i]), race,
                        runners, i + 1)

\* "for rj in races_json" of one meeting
RECURSIVE ApplyRaRaces(_, _, _, _)
ApplyRaRaces(sess, meeting, races_json, i) ==
    IF i > Len(races_json) THEN sess
    ELSE ApplyRaRaces(
            ApplyRaRunners(sess,
                           CHOOSE x \in RacesFound(meeting, races_json[i]) :
                               TRUE,
                           races_json[i].results, 1),
            meeting, races_json, i + 1)

\* "for m in meetings_json"
RECURSIVE ApplyRaMeetings(_, _, _, _)
ApplyRaMeetings(sess, d, meetings_json, i) ==
    IF i > Len(meetings_json) THEN sess
    ELSE ApplyRaMeetings(
            ApplyRaRaces(sess,
                         CHOOSE x \in MeetingsFound(d, meetings_json[i]) :
                             TRUE,
                         meetings_json[i].races, 1),
            d, meetings_json, i + 1)

\* results_ra.fetch_results_for_date, for a payload whose meetings and
\* races are stored (the find-or-create of Meeting and Race finds them)
fetch_results_for_date(store, d, resp) ==
    IF _fetch_ra_results_from_crawler(resp) = <<>>
    THEN [store |-> store, log |-> [NoLog EXCEPT !.fetched = <<d>>]]
    ELSE CommitPass(store, d, [NoLog EXCEPT !.fetched = <<d>>],
                    ApplyRaMeetings(OpenSession(store), d,
                                    _fetch_ra_results_from_crawler(resp), 1))

(***************************************************************************)
(* Inputs                                                                  *)
(***************************************************************************)
\* what a feed may report of one runner: a winner at 3.60, a scratching
Winner ==
    [finishing_pos |-> 1, is_scratched |-> FALSE, starting_price |-> 360]
Scratching ==
    [finishing_pos |-> NoneNum, is_scratched |-> TRUE,
     starting_price |-> NoneNum]

\* an item of the crawler's /results payload: runner 4 of race 3
RAItem(t, sh) ==
    [obj |-> TRUE, state |-> VIC, track |-> t, race_no |-> 3, horse_number |-> 4,
     horse_name |-> HorseName, finishing_pos |-> sh.finishing_pos,
     is_scratched |-> sh.is_scratched, margin_lens |-> NoneNum,
     starting_price |-> sh.starting_price]

\* the items of the crawler's payload for date d: the meetings race on
\* date 1 and nothing is run on date 2
RAItems(d) ==
    IF d = 1
    THEN { RAItem(RosehillGardens, Winner), RAItem(RosehillGardens, Scratching),
           RAItem(Rosehill, Winner) }
    ELSE {}

HTTPFailure == [ok |-> FALSE, items |-> <<>>]
NoItems == [ok |-> TRUE, items |-> <<>>]

RAResponses(d) ==
    { HTTPFailure } \cup
    { [ok |-> TRUE, items |-> q] : q \in SeqsUpTo(RAItems(d), MaxFeed) }

\* a runner of the crawler's nested /results payload (results_ra)
RARunner(sh) ==
    [tabNumber |-> 4, horseName |-> HorseName,
     finishPosition |-> sh.finishing_pos,
     status |-> IF sh.is_scratched THEN "SCRATCHED" ELSE "RUN",
     startingPrice |-> sh.starting_price]

RAMeetingsResponses(d) ==
    { [ok |-> FALSE, meetings |-> <<>>], [ok |-> TRUE, meetings |-> <<>>] }
    \cup
    { [ok |-> TRUE,
       meetings |-> << [track |-> RosehillGardens, state |-> VIC,
                        races |-> << [raceNo |-> 3, results |-> q] >>] >>] :
        q \in SeqsUpTo({RARunner(Winner), RARunner(Scratching)}, MaxFeed)
              \ {<<>>} }

\* a runner of PF's post-race payload: the winner, a scratching
PFWinner ==
    [tabNo |-> 4, runnerName |-> HorseName, posFin |-> 1, status |-> ""]
PFScratching ==
    [tabNo |-> 4, runnerName |-> HorseName, posFin |-> 0, status |-> "SCR"]

PFFailure == [ok |-> FALSE, runners |-> <<>>]

\* PF's answers to the post-race request of a race
PostRaceResponses(race_id) ==
    { PFFailure } \cup
    { [ok |-> TRUE, runners |-> q] :
        q \in IF race_id = "r1"
              THEN SeqsUpTo({PFWinner, PFScratching}, MaxFeed)
              ELSE {<<>>, <<PFWinner>>} }

\* Skynet's answers: a failure, no prices, the price of the tipped runner
SkynetResponses ==
    { [ok |-> FALSE, rows |-> <<>>], [ok |-> TRUE, rows |-> <<>>],
      [ok |-> TRUE,
       rows |-> << [meetingId |-> 101, raceNumber |-> 3, tabNumber |-> 4,
                    tabCurrentPrice |-> 360] >>] }

(***************************************************************************)
(* State                                                                   *)
(***************************************************************************)
VARIABLES
    race_results,   \* the committed rows of models.RaceResult
    tip_outcomes,   \* the committed rows of models.TipOutcome
    last,           \* the last operation: its name and its log
    runs,           \* the runs of the results job that are under way
    meetings,       \* the committed rows of models.Meeting
    races,          \* the committed rows of models.Race
    tip_runs,       \* the committed rows of models.TipRun
    tips,           \* the committed rows of models.Tip
    uuids,          \* the number of ids drawn for these rows (uuid.uuid4)
    results_cache,  \* trends_analytics._results_cache
    clock           \* time.time(), in seconds

vars == <<race_results, tip_outcomes, last, runs,
          meetings, races, tip_runs, tips, uuids, results_cache, clock>>

\* the cache of the trends and the time, which no other module reads
trends_cache == <<results_cache, clock>>

\* the process has just started
ColdCache ==
    /\ results_cache = <<>>
    /\ clock = 0

\* the tables the results passes read and never write
catalogue == <<meetings, races, tip_runs, tips, uuids>>

\* the meetings, races and tips the results passes find stored
TipRuns == { [id |-> "tr1", meeting_id |-> "m1"] }
Stocked ==
    /\ meetings = Meetings
    /\ races = Races
    /\ tip_runs = TipRuns
    /\ tips = Tips
    /\ uuids = 0

\* the processes that run the results job at the same time (the daily cron,
\* a manual backfill)
RunIds == {"cron", "backfill"}

EmptyStore == [rr |-> {}, to |-> {}]

Idle == [pc |-> "idle", job |-> None, d |-> 0, resp |-> <<>>, rows |-> <<>>,
         i |-> 0, sess |-> OpenSession(EmptyStore)]

Store == [rr |-> race_results, to |-> tip_outcomes]

Init ==
    /\ race_results = {}
    /\ ColdCache
    /\ Stocked
    /\ tip_outcomes = {}
    /\ last = [op |-> "init", log |-> NoLog]
    /\ runs = [p \in RunIds |-> Idle]

\* results_daily_job.run_results_for_window (the daily cron and the manual
\* backfill); the crawler is asked for the dates of the window only
\* the end of a pass: what it committed becomes the store, what it did is
\* the log
Finish(op, r) ==
    /\ race_results' = r.store.rr
    /\ tip_outcomes' = r.store.to
    /\ last' = [op |-> op, log |-> r.log]
    /\ UNCHANGED <<runs, catalogue, trends_cache>>

\* the end of a window run, with the window it was given
FinishWindow(date_from, date_to, r) ==
    /\ race_results' = r.store.rr
    /\ tip_outcomes' = r.store.to
    /\ last' = [op |-> "run_results_for_window", log |-> r.log,
                date_from |-> date_from, date_to |-> date_to]
    /\ UNCHANGED <<runs, catalogue, trends_cache>>

RunResultsForWindow ==
    \E date_from \in Dates, date_to \in Dates :
    \E r1 \in RAResponses(1), r2 \in RAResponses(2) :
        /\ 1 \notin date_from..date_to => r1 = NoItems
        /\ 2 \notin date_from..date_to => r2 = NoItems
        /\ FinishWindow(date_from, date_to,
                        run_results_for_window(Store, date_from, date_to,
                                               <<r1, r2>>))

\* a race that is not asked for has no answer
Asked(d, post) ==
    \A x \in DOMAIN post :
        (\A i \in DOMAIN PfRaces(d) : PfRaces(d)[i][2].id # x) =>
            post[x] = PFFailure

\* pf_results.import_pf_results_for_date with its own session
ImportPfResultsForDate ==
    \E d \in Dates, skynet \in SkynetResponses :
    \E p1 \in PostRaceResponses("r1"), p2 \in PostRaceResponses("r2") :
    \E rr_rows \in Orderings(RrRowsOfDate(OpenSession(Store), d)) :
        /\ Asked(d, [r \in {"r1", "r2"} |-> IF r = "r1" THEN p1 ELSE p2])
        /\ Finish("import_pf_results_for_date",
                  import_pf_results_for_date(
                      Store, d, skynet,
                      [r \in {"r1", "r2"} |-> IF r = "r1" THEN p1 ELSE p2],
                      rr_rows))

\* pf_results._attach_tip_outcomes_from_existing_results_for_date as a pass
AttachTipOutcomes ==
    \E d \in Dates :
    \E rr_rows \in Orderings(RrRowsOfDate(OpenSession(Store), d)) :
        Finish("attach", AttachPass(Store, d, rr_rows))

\* the meetings and races of the payload are stored
PayloadStored(d, resp) ==
    \A i \in DOMAIN resp.meetings :
        /\ MeetingsFound(d, resp.meetings[i]) # {}
        /\ \A j \in DOMAIN resp.meetings[i].races :
              \E x \in MeetingsFound(d, resp.meetings[i]) :
                  RacesFound(x, resp.meetings[i].races[j]) # {}

\* results_ra.fetch_results_for_date (cron_fetch_ra_results)
FetchRaResults ==
    \E d \in Dates :
    \E resp \in RAMeetingsResponses(d) :
        /\ PayloadStored(d, resp)
        /\ Finish("fetch_results_for_date",
                  fetch_results_for_date(Store, d, resp))

Next ==
    \/ RunResultsForWindow
    \/ ImportPfResultsForDate
    \/ AttachTipOutcomes
    \/ FetchRaResults

Spec == Init /\ [][Next]_vars
(***************************************************************************)
(* The classifiers on their own: an input is drawn, the classifier named   *)
(* in it is applied.  A result is given as the callers have it: its finish *)
(* position (absent, or a number) and whether its source reports the       *)
(* runner scratched.                                                       *)
(***************************************************************************)
\* the largest finish position drawn
MaxPos == 8

Positions == {NoneNum} \cup (-MaxPos..MaxPos)

Classifiers ==
    {"_tip_outcome_status", "_classify_outcome", "_classify_outcome_from_pos"}

\* what the caller of classifier fn writes for the result (pos, scratched):
\* _tip_outcome_status gets the row, the other two the finish position only
Classified(fn, pos, scratched) ==
    IF fn = "_tip_outcome_status"
    THEN _tip_outcome_status([is_scratched |-> scratched,
                              finishing_pos |-> pos])
    ELSE IF fn = "_classify_outcome" THEN _classify_outcome(pos)
    ELSE _classify_outcome_from_pos(pos)

ClassifyInit ==
    /\ race_results = {}
    /\ ColdCache
    /\ Stocked
    /\ tip_outcomes = {}
    /\ runs = [p \in RunIds |-> Idle]
    /\ \E fn \in Classifiers, pos \in Positions, scratched \in BOOLEAN :
          last = [op |-> "input", fn |-> fn, pos |-> pos,
                  scratched |-> scratched, status |-> None]

Classify ==
    /\ last.op = "input"
    /\ last' = [last EXCEPT
                  !.op = "classified",
                  !.status = Classified(last.fn, last.pos, last.scratched)]
    /\ UNCHANGED <<race_results, tip_outcomes, runs, catalogue, trends_cache>>

ClassifyNext == Classify

ClassifySpec == ClassifyInit /\ [][ClassifyNext]_vars

(***************************************************************************)
(* The adapters of the crawler's /results payload on a payload that may    *)
(* hold malformed items: RAResultsClient.fetch_results_for_date and        *)
(* trends_analytics._fetch_results_for_date.                               *)
(***************************************************************************)
\* trends_analytics: "if not state or race_no is None or horse_number is
\* None: continue"
FlatKept(item) ==
    /\ item.state # NoText
    /\ item.race_no # NoneNum
    /\ item.horse_number # NoneNum

\* the item makes the loop body raise: item.get of an item that is not an
\* object, int() of a text that is not a number
FlatRaises(item) ==
    \/ ~item.obj
    \/ /\ FlatKept(item)
       /\ \/ item.race_no = NotANumber
          \/ item.horse_number = NotANumber

FlatResult(item) ==
    [state |-> StrUpper(item.state), track |-> item.track,
     race_no |-> item.race_no, horse_number |-> item.horse_number,
     horse_name |-> item.horse_name, finishing_pos |-> item.finishing_pos,
     is_scratched |-> item.is_scratched,
     starting_price |-> item.starting_price]

\* the results appended by one pass over items none of which raises
RECURSIVE FlatResults(_)
FlatResults(items) ==
    IF items = <<>> THEN <<>>
    ELSE (IF FlatKept(Head(items)) THEN <<FlatResult(Head(items))>> ELSE <<>>)
         \o FlatResults(Tail(items))

\* the number of attempts of _fetch_results_for_date
max_retries == 3

\* the items of an answer that are parsed before one makes the loop raise
ParsedBeforeRaise(items) ==
    SubSeq(items, 1,
           (CHOOSE k \in DOMAIN items :
               /\ FlatRaises(items[k])
               /\ \A j \in 1..(k - 1) : ~FlatRaises(items[j])) - 1)

\* "for attempt in range(max_retries)" over the crawler's answers to the
\* attempts (ok = FALSE: get / raise_for_status / json raises).  results is
\* one list for all attempts: an attempt that raises at an item has
\* appended the results of the items before it, and the next attempt
\* appends to them.  ok tells whether an attempt got through (and cached
\* what it returns).
RECURSIVE FetchAttempts(_, _)
FetchAttempts(results, answers) ==
    IF answers = <<>> THEN [ok |-> FALSE, results |-> results]
    ELSE IF ~Head(answers).ok THEN FetchAttempts(results, Tail(answers))
    ELSE IF \A i \in DOMAIN Head(answers).items :
               ~FlatRaises(Head(answers).items[i])
    THEN [ok |-> TRUE,
          results |-> results \o FlatResults(Head(answers).items)]
    ELSE FetchAttempts(
            results \o FlatResults(ParsedBeforeRaise(Head(answers).items)),
            Tail(answers))

\* _fetch_results_for_date without its cache, for a crawler that answers
\* every attempt with the same items
_fetch_results_for_date(items) ==
    FetchAttempts(<<>>, [a \in 1..max_retries |->
                            [ok |-> TRUE, items |-> items]]).results

MaxItems == 3

\* an item that is not an object, an item whose race number is not a number
NotAnObject == [obj |-> FALSE]
BadRaceNo == [RAItem(RosehillGardens, Winner) EXCEPT !.race_no = NotANumber]
BadRunnerNo ==
    [RAItem(RosehillGardens, Winner) EXCEPT !.horse_number = NotANumber]

PayloadItems ==
    { RAItem(RosehillGardens, Winner), RAItem(SportsbetBallarat, Scratching),
      NotAnObject, BadRaceNo, BadRunnerNo }

ParseInit ==
    /\ race_results = {}
    /\ ColdCache
    /\ Stocked
    /\ tip_outcomes = {}
    /\ runs = [p \in RunIds |-> Idle]
    /\ \E items \in SeqsUpTo(PayloadItems, MaxItems) :
          last = [op |-> "payload", items |-> items,
                  client |-> [raised |-> None, rows |-> <<>>],
                  trends |-> <<>>]

FetchPayload ==
    /\ last.op = "payload"
    /\ last' = [last EXCEPT
                  !.op = "fetched",
                  !.client = RAResultsClient_fetch_results_for_date(
                                 [ok |-> TRUE, items |-> last.items]),
                  !.trends = _fetch_results_for_date(last.items)]
    /\ UNCHANGED <<race_results, tip_outcomes, runs, catalogue, trends_cache>>

ParseNext == FetchPayload

ParseSpec == ParseInit /\ [][ParseNext]_vars

(***************************************************************************)
(* The requests that write meetings, races, tip runs and tips:             *)
(* routes_tips.create_tips_batch, results_ra.fetch_results_for_date on a   *)
(* payload whose races list no runner, and                                 *)
(* routes_admin.admin_replace_tips_text.  db is the session of a request:  *)
(* the rows it sees (its own flushed rows included) and what it raised.    *)
(* A new row takes the next id; the latest TipRun of a meeting             *)
(* (order_by created_at desc) is the one with the greatest id.  The        *)
(* columns no lookup reads (country, race name, distance, horse name,      *)
(* reasoning, stake_units) are left out of the rows.                       *)
(***************************************************************************)
MaxIds == 5

Db ==
    [meetings |-> meetings, races |-> races, tip_runs |-> tip_runs,
     tips |-> tips, uuids |-> uuids, raised |-> None]

\* Query.first(): a row of the result, or NoRow for None
NoRow == [id |-> 0]
First(rows) == IF rows = {} THEN {NoRow} ELSE rows

\* filter(Meeting.date == d, Meeting.track_name == track,
\*        Meeting.state == state)
NaturalKey_Blind(db, d, track, state) == {}
NaturalKey(db, d, track, state) ==
    { x \in db.meetings :
        /\ x.date = d /\ x.track_name = track /\ x.state = state }

\* db.add(row); db.flush() of a Meeting, a Race, a Tip: the INSERT raises
\* IntegrityError on the uniqueness constraint it breaks
AddMeeting(db, row) ==
    IF \E x \in db.meetings :
          /\ x.date = row.date /\ x.track_name = row.track_name
          /\ x.state = row.state
    THEN [db EXCEPT !.raised = "uq_meeting_date_track"]
    ELSE [db EXCEPT !.meetings = @ \cup {[row EXCEPT !.id = db.uuids + 1]},
                    !.uuids = @ + 1]

AddRace(db, row) ==
    IF \E x \in db.races :
          x.meeting_id = row.meeting_id /\ x.race_number = row.race_number
    THEN [db EXCEPT !.raised = "uq_race_meeting_number"]
    ELSE [db EXCEPT !.races = @ \cup {[row EXCEPT !.id = db.uuids + 1]},
                    !.uuids = @ + 1]

AddTip(db, row) ==
    IF \E x \in db.tips :
          /\ x.tip_run_id = row.tip_run_id /\ x.race_id = row.race_id
          /\ x.tip_type = row.tip_type
    THEN [db EXCEPT !.raised = "uq_tip_unique"]
    ELSE [db EXCEPT !.tips = @ \cup {[row EXCEPT !.id = db.uuids + 1]},
                    !.uuids = @ + 1]

\* create_tips_batch, "Upsert Meeting": the rows .first() may return
BatchMeetingFound(db, m) ==
    IF /\ m.pf_meeting_id # NoneNum
       /\ \E x \in db.meetings : x.pf_meeting_id = m.pf_meeting_id
    THEN { x \in db.meetings : x.pf_meeting_id = m.pf_meeting_id }
    ELSE First(NaturalKey(db, m.date, m.track_name, m.state))

BatchMeeting(db, m, found) ==
    IF found.id = 0
    THEN AddMeeting(db, [id |-> 0, date |-> m.date,
                         track_name |-> m.track_name, state |-> m.state,
                         pf_meeting_id |-> m.pf_meeting_id,
                         ra_meetcode |-> m.ra_meetcode])
    ELSE [db EXCEPT !.meetings =
            (@ \ {found}) \cup
            { [found EXCEPT !.ra_meetcode = m.ra_meetcode,
                            !.pf_meeting_id =
                                IF m.pf_meeting_id # NoneNum
                                THEN m.pf_meeting_id ELSE @] }]

\* the id of the meeting the request goes on with
MeetingId(db, found) == IF found.id = 0 THEN db.uuids + 1 ELSE found.id

\* "Find or create Race" of fetch_results_for_date and "Upsert Races" of
\* create_tips_batch
RacesOf(db, meeting_id, race_number) ==
    { x \in db.races :
        x.meeting_id = meeting_id /\ x.race_number = race_number }

FindOrCreateRace(db, meeting_id, race_number) ==
    IF RacesOf(db, meeting_id, race_number) # {} THEN db
    ELSE AddRace(db, [id |-> 0, meeting_id |-> meeting_id,
                      race_number |-> race_number])

RaceId(db, meeting_id, race_number) ==
    IF RacesOf(db, meeting_id, race_number) # {}
    THEN (CHOOSE x \in RacesOf(db, meeting_id, race_number) : TRUE).id
    ELSE db.uuids + 1

\* "for t in race_in.tips": db.add(tip); db.flush()
RECURSIVE BatchTips(_, _, _, _)
BatchTips(db, race_id, tip_run_id, tips_in) ==
    IF db.raised # None \/ tips_in = <<>> THEN db
    ELSE BatchTips(
            AddTip(db, [id |-> 0, race_id |-> race_id,
                        tip_run_id |-> tip_run_id,
                        tip_type |-> Head(tips_in).tip_type,
                        tab_number |-> Head(tips_in).tab_number]),
            race_id, tip_run_id, Tail(tips_in))

\* "for race_in in payload.races"
RECURSIVE BatchRaces(_, _, _, _)
BatchRaces(db, meeting_id, tip_run_id, races_in) ==
    IF db.raised # None \/ races_in = <<>> THEN db
    ELSE BatchRaces(
            BatchTips(
                FindOrCreateRace(db, meeting_id, Head(races_in).race_number),
                RaceId(db, meeting_id, Head(races_in).race_number),
                tip_run_id, Head(races_in).tips),
            meeting_id, tip_run_id, Tail(races_in))

\* "Create TipRun" and what follows it
BatchTipRun(db, meeting_id, races_in) ==
    IF db.raised # None THEN db
    ELSE BatchRaces(
            [db EXCEPT !.tip_runs =
                          @ \cup {[id |-> db.uuids + 1,
                                   meeting_id |-> meeting_id]},
                       !.uuids = @ + 1],
            meeting_id, db.uuids + 1, races_in)

\* routes_tips.create_tips_batch up to its commit; found is the row the
\* meeting lookups returned
create_tips_batch(db, payload, found) ==
    BatchTipRun(BatchMeeting(db, payload.meeting, found),
                MeetingId(db, found), payload.races)

\* results_ra.fetch_results_for_date, "Find or create Meeting"
RaState(m) == IF StrStrip(m.state) = NoText THEN VIC ELSE StrStrip(m.state)

RaMeetingFound(db, d, m) ==
    IF /\ m.ra_meetcode # None
       /\ \E x \in db.meetings : x.ra_meetcode = m.ra_meetcode
    THEN { x \in db.meetings : x.ra_meetcode = m.ra_meetcode }
    ELSE First(NaturalKey(db, d, m.track, RaState(m)))

RaMeeting(db, d, m, found) ==
    IF found.id # 0 THEN db
    ELSE AddMeeting(db, [id |-> 0, date |-> d, track_name |-> m.track,
                         state |-> RaState(m), pf_meeting_id |-> NoneNum,
                         ra_meetcode |-> m.ra_meetcode])

\* "for rj in races_json": a race number int() rejects is passed over
RECURSIVE RaRaces(_, _, _)
RaRaces(db, meeting_id, races_json) ==
    IF db.raised # None \/ races_json = <<>> THEN db
    ELSE RaRaces(
            IF Head(races_json) = NotANumber THEN db
            ELSE FindOrCreateRace(db, meeting_id, Head(races_json)),
            meeting_id, Tail(races_json))

\* results_ra.fetch_results_for_date up to its commit, for a payload of one
\* meeting m whose races have no runners
FetchMeeting(db, d, m, found) ==
    RaRaces(RaMeeting(db, d, m, found), MeetingId(db, found), m.races)

\* routes_admin.admin_replace_tips_text from the race lookup on.  The bulk
\* DELETE runs at once; a database that enforces tip_outcomes.tip_id ->
\* tips.id (fk) rejects it when an outcome refers to a deleted tip, SQLite
\* as database.py connects to it does not
ReplaceTips(db, outcomes, tip_run_id, race, tip_dicts, fk) ==
    IF race.id = 0 THEN [db EXCEPT !.raised = "HTTP404"]
    ELSE IF /\ fk
            /\ \E o \in outcomes, x \in db.tips :
                  /\ x.tip_run_id = tip_run_id /\ x.race_id = race.id
                  /\ o.tip_id = x.id
    THEN [db EXCEPT !.raised = "fk_tip_outcomes_tip_id"]
    ELSE IF tip_dicts = <<>> THEN [db EXCEPT !.raised = "HTTP400"]
    ELSE BatchTips(
            [db EXCEPT !.tips =
                { x \in @ : ~(x.tip_run_id = tip_run_id
                              /\ x.race_id = race.id) }],
            race.id, tip_run_id, tip_dicts)

\* the tip runs of a meeting, and the latest of them
RunsOf(db, meeting) == { x \in db.tip_runs : x.meeting_id = meeting.id }

admin_replace_tips_text(db, outcomes, payload, tip_dicts, fk) ==
    IF NaturalKey(db, payload.date, payload.track_name, payload.state) = {}
    THEN [db EXCEPT !.raised = "HTTP404"]
    ELSE IF \A m \in NaturalKey(db, payload.date, payload.track_name,
                                payload.state) : RunsOf(db, m) = {}
    THEN [db EXCEPT !.raised = "HTTP400"]
    ELSE ReplaceTips(
            db, outcomes,
            (CHOOSE x \in db.tip_runs :
                \E m \in NaturalKey(db, payload.date, payload.track_name,
                                    payload.state) :
                    /\ x \in RunsOf(db, m)
                    /\ \A y \in RunsOf(db, m) : y.id <= x.id).id,
            CHOOSE r \in First(
                { x \in db.races :
                    /\ x.race_number = payload.race_number
                    /\ \E m \in NaturalKey(db, payload.date,
                                           payload.track_name,
                                           payload.state) :
                          x.meeting_id = m.id }) : TRUE,
            tip_dicts, fk)

\* the payloads of the requests
AI_BEST == [tip_type |-> "AI_BEST", tab_number |-> 4]
DANGER == [tip_type |-> "DANGER", tab_number |-> 5]

BatchPayloads ==
    [meeting : [date : {1}, track_name : {Rosehill, Ballarat}, state : {VIC},
                pf_meeting_id : {NoneNum, 101}, ra_meetcode : {None, "RG"}],
     races : { <<[race_number |-> 3, tips |-> <<AI_BEST>>]>>,
               <<[race_number |-> 3, tips |-> <<AI_BEST, AI_BEST>>]>>,
               <<[race_number |-> 3, tips |-> <<AI_BEST>>],
                 [race_number |-> 4, tips |-> <<DANGER>>]>> }]

RaMeetingPayloads ==
    [track : {Rosehill, Ballarat}, state : {NoText, VIC},
     ra_meetcode : {None, "RG"},
     races : { <<>>, <<3>>, <<NotANumber, 4>> }]

ReplacePayloads ==
    [date : {1}, track_name : {Rosehill, Ballarat}, state : {VIC},
     race_number : {3, 4}]

\* what ireel_client.parse_tips_text makes of the text of a request
TipDicts == { <<>>, <<AI_BEST>>, <<DANGER>> }

TipsInit ==
    /\ race_results = {}
    /\ ColdCache
    /\ tip_outcomes = {}
    /\ runs = [p \in RunIds |-> Idle]
    /\ meetings = {}
    /\ races = {}
    /\ tip_runs = {}
    /\ tips = {}
    /\ uuids = 0
    /\ last = [op |-> "init", raised |-> None, found |-> 0,
               key |-> <<>>]

\* db.commit() at the end of a request, or the rollback of a request that
\* raised; key is the (date, track name, state) of its payload
EndRequest(op, db, found, key) ==
    /\ meetings' = IF db.raised = None THEN db.meetings ELSE meetings
    /\ races' = IF db.raised = None THEN db.races ELSE races
    /\ tip_runs' = IF db.raised = None THEN db.tip_runs ELSE tip_runs
    /\ tips' = IF db.raised = None THEN db.tips ELSE tips
    /\ uuids' = db.uuids
    /\ last' = [op |-> op, raised |-> db.raised, found |-> found.id,
                key |-> key]
    /\ UNCHANGED <<race_results, tip_outcomes, runs, trends_cache>>

CreateTipsBatch ==
    /\ uuids < MaxIds
    /\ \E payload \in BatchPayloads :
       \E found \in BatchMeetingFound(Db, payload.meeting) :
          EndRequest("create_tips_batch",
                     create_tips_batch(Db, payload, found), found,
                     <<payload.meeting.date, payload.meeting.track_name,
                       payload.meeting.state>>)

FetchRaMeetings ==
    /\ uuids < MaxIds
    /\ \E d \in {1}, m \in RaMeetingPayloads :
       \E found \in RaMeetingFound(Db, d, m) :
          EndRequest("fetch_results_for_date", FetchMeeting(Db, d, m, found),
                     found, <<d, m.track, RaState(m)>>)

AdminReplaceTipsText ==
    /\ uuids < MaxIds
    /\ \E payload \in ReplacePayloads, tip_dicts \in TipDicts,
          fk \in BOOLEAN :
          EndRequest("admin_replace_tips_text",
                     admin_replace_tips_text(Db, tip_outcomes, payload,
                                             tip_dicts, fk),
                     NoRow,
                     <<payload.date, payload.track_name, payload.state>>)

\* a results pass that finds a result for the runner of a stored tip writes
\* the tip's TipOutcome
SettleTip ==
    /\ \E t \in tips :
          /\ \A o \in tip_outcomes : o.tip_id # t.id
          /\ tip_outcomes' =
                Commit(Store,
                       UpsertOutcome(OpenSession(Store), t.id, "PF", NoId,
                                     1, "WIN", NoneNum, FALSE)).store.to
    /\ last' = [op |-> "settle", raised |-> None, found |-> 0, key |-> <<>>]
    /\ UNCHANGED <<race_results, runs, catalogue, trends_cache>>

TipsNext ==
    \/ CreateTipsBatch
    \/ FetchRaMeetings
    \/ AdminReplaceTipsText
    \/ SettleTip

TipsSpec == TipsInit /\ [][TipsNext]_vars

(***************************************************************************)
(* The aggregations over the tips of a bucket: the per-meeting buckets of  *)
(* routes_ui_overview, stats_rollup.compute_day_rollup,                    *)
(* analytics._aggregate_rows with _aggs_to_tip_type_stats, and the         *)
(* TrendBucket of trends_analytics.  A row is a tip with what the          *)
(* aggregation joins to it: has is FALSE for a tip without outcome and     *)
(* without result.  Prices are in hundredths, stake_units are whole, money *)
(* is in cents; a rate is the pair <<numerator, denominator>> of the       *)
(* division that computes it.  The statuses are the upper-case texts the   *)
(* results passes write and no tip has stake_units 0 or NULL, so           *)
(* .upper() and "stake_units or 1" change nothing.                         *)
(***************************************************************************)
MaxRows == 2

\* stake_per_tip of compute_day_rollup, compute_day_stats, compute_range_stats
stake_per_tip == 10

\* amount (cents) times a price (hundredths), in cents
Times(amount, price) == (amount * price) \div 100

\* stats_rollup._safe_decimal of a price
_safe_decimal(value) == IF value = NoneNum THEN 0 ELSE value

\* routes_ui_overview: the accumulation of a bucket over the tips of its
\* meeting, from the status and the price the lookups settled on
\* ("PENDING" and no price for a tip without outcome)
RECURSIVE ui_overview_bucket(_, _)
ui_overview_bucket(bucket, rows) ==
    IF rows = <<>> THEN bucket
    ELSE ui_overview_bucket(
            [tips |-> bucket.tips + 1,
             wins |-> bucket.wins
                      + (IF Head(rows).has /\ Head(rows).status = "WIN"
                         THEN 1 ELSE 0),
             places |-> bucket.places
                      + (IF /\ Head(rows).has
                            /\ Head(rows).status \in {"WIN", "PLACE"}
                         THEN 1 ELSE 0),
             stakes |-> bucket.stakes + Head(rows).stake_units * 100,
             return |-> bucket.return
                      + (IF /\ Head(rows).has
                            /\ Head(rows).status = "WIN"
                            /\ Head(rows).starting_price # NoneNum
                         THEN Times(Head(rows).stake_units * 100,
                                    Head(rows).starting_price)
                         ELSE 0)],
            Tail(rows))

\* compute_day_rollup, "Per-race accumulation": pos and the price are those
\* of the best RaceResult of the tip's runner
RECURSIVE compute_day_rollup(_, _)
compute_day_rollup(stats, rows) ==
    IF rows = <<>> THEN stats
    ELSE compute_day_rollup(
            [tips_total |-> stats.tips_total + 1,
             turnover |-> stats.turnover + stake_per_tip * 100,
             wins |-> stats.wins
                      + (IF Head(rows).has /\ Head(rows).pos = 1
                         THEN 1 ELSE 0),
             return |-> stats.return
                      + (IF Head(rows).has /\ Head(rows).pos = 1
                         THEN Times(stake_per_tip * 100,
                                    _safe_decimal(Head(rows).starting_price))
                         ELSE 0)],
            Tail(rows))

\* _aggregate_rows: "if status == WIN: net_profit += stake * (price - 1)
\* else: net_profit -= stake"
AggProfit_LoseTwice(status, stake, price) ==
    IF status = "WIN" THEN Times(stake, price - 100) ELSE 0 - 2 * stake
AggProfit(status, stake, price) ==
    IF status = "WIN" THEN Times(stake, price - 100) ELSE 0 - stake

\* _aggregate_rows: what one row does to the _Agg of its tip type
AggRow(agg, row) ==
    IF ~row.has THEN [agg EXCEPT !.tips = @ + 1]
    ELSE IF \/ row.status \notin {"WIN", "LOSE"}
            \/ row.starting_price = NoneNum
    THEN [agg EXCEPT
            !.tips = @ + 1,
            !.wins = @ + (IF row.status = "WIN"
                          THEN 1 ELSE 0),
            !.places = @ + (IF row.status = "PLACE"
                            THEN 1 ELSE 0)]
    ELSE [agg EXCEPT
            !.tips = @ + 1,
            !.wins = @ + (IF row.status = "WIN"
                          THEN 1 ELSE 0),
            !.total_staked = @ + stake_per_tip * row.stake_units * 100,
            !.net_profit =
                @ + AggProfit(row.status,
                              stake_per_tip * row.stake_units * 100,
                              row.starting_price)]

RECURSIVE _aggregate_rows(_, _)
_aggregate_rows(aggs, rows) ==
    IF rows = <<>> THEN aggs
    ELSE _aggregate_rows(
            [aggs EXCEPT ![Head(rows).tip_type] = AggRow(@, Head(rows))],
            Tail(rows))

\* x / y: the pair <<x, y>>; a pair with denominator 0 stands for the
\* ZeroDivisionError the division raises
Divide(x, y) == <<x, y>>

\* x / y if y else 0.0
Rate(x, y) == IF y = 0 THEN <<0, 1>> ELSE Divide(x, y)

\* (net_profit / total_staked) if total_staked > 0 else 0.0
Roi_Unguarded(net, staked) == Divide(net, staked)
Roi(net, staked) == IF staked > 0 THEN Divide(net, staked) ELSE <<0, 1>>

\* ui_overview, "Convert aggregates to list": the rates of a bucket
\* (roi = ret / stakes - 1)
ui_overview_rates(b) ==
    [tips |-> b.tips, stakes |-> b.stakes,
     win_sr |-> Rate(b.wins, b.tips), place_sr |-> Rate(b.places, b.tips),
     roi |-> Roi(b.return - b.stakes, b.stakes)]

\* _aggs_to_tip_type_stats, for the _Agg of one tip type
_aggs_to_tip_type_stats(agg) ==
    [tips |-> agg.tips, wins |-> agg.wins, places |-> agg.places,
     win_strike_rate |-> Rate(agg.wins, agg.tips),
     place_strike_rate |-> Rate(agg.places, agg.tips),
     total_staked |-> agg.total_staked, net_profit |-> agg.net_profit,
     roi |-> Roi(agg.net_profit, agg.total_staked)]

\* trends_analytics: update_bucket over the tips of a bucket
RECURSIVE update_bucket(_, _)
update_bucket(bucket, rows) ==
    IF rows = <<>> THEN bucket
    ELSE update_bucket(
            [tips |-> bucket.tips + 1,
             wins |-> bucket.wins
                      + (IF Head(rows).has /\ Head(rows).pos = 1
                         THEN 1 ELSE 0),
             seconds |-> bucket.seconds
                      + (IF Head(rows).has /\ Head(rows).pos = 2
                         THEN 1 ELSE 0),
             thirds |-> bucket.thirds
                      + (IF Head(rows).has /\ Head(rows).pos = 3
                         THEN 1 ELSE 0)],
            Tail(rows))

\* TrendBucket.win_strike_rate, TrendBucket.place_strike_rate
win_strike_rate(bucket) ==
    IF bucket.tips > 0 THEN Divide(bucket.wins * 100, bucket.tips)
    ELSE <<0, 1>>
place_strike_rate(bucket) ==
    IF bucket.tips > 0
    THEN Divide((bucket.wins + bucket.seconds + bucket.thirds) * 100,
                bucket.tips)
    ELSE <<0, 1>>

\* TrendBucket.to_dict without its rounding
TrendRates(bucket) ==
    [tips |-> bucket.tips, wins |-> bucket.wins, seconds |-> bucket.seconds,
     thirds |-> bucket.thirds,
     win_strike_rate |-> win_strike_rate(bucket),
     place_strike_rate |-> place_strike_rate(bucket)]

\* the tips of a bucket: the tip types and stake units, and for each tip no
\* outcome or one of the outcomes the results passes write
TipTypes == {"AI_BEST", "DANGER"}

Settled(status, pos, sp) ==
    [has |-> TRUE, status |-> status, pos |-> pos, starting_price |-> sp]

Outcomes ==
    { [has |-> FALSE, status |-> "PENDING", pos |-> NoneNum,
       starting_price |-> NoneNum],
      Settled("WIN", 1, 360), Settled("WIN", 1, NoneNum),
      Settled("PLACE", 2, 360), Settled("PLACE", 3, NoneNum),
      Settled("LOSE", 5, 360), Settled("LOSE", 5, NoneNum),
      Settled("SCRATCHED", NoneNum, NoneNum),
      Settled("NO_RESULT", NoneNum, NoneNum),
      Settled("PENDING", NoneNum, NoneNum) }

StatRows ==
    { [tip_type |-> ty, stake_units |-> u, has |-> o.has,
       status |-> o.status, pos |-> o.pos,
       starting_price |-> o.starting_price] :
        ty \in TipTypes, u \in {1, 2}, o \in Outcomes }

NoAgg == [tips |-> 0, wins |-> 0, places |-> 0, total_staked |-> 0,
          net_profit |-> 0]

StatsInit ==
    /\ race_results = {}
    /\ ColdCache
    /\ tip_outcomes = {}
    /\ runs = [p \in RunIds |-> Idle]
    /\ Stocked
    /\ \E rows \in SeqsUpTo(StatRows, MaxRows) :
          last = [op |-> "rows", rows |-> rows]

\* every aggregation over the rows drawn
Aggregate ==
    /\ last.op = "rows"
    /\ last' =
          [op |-> "aggregated", rows |-> last.rows,
           overview |->
              ui_overview_bucket(
                 [tips |-> 0, wins |-> 0, places |-> 0, stakes |-> 0,
                  return |-> 0], last.rows),
           overview_rates |->
              ui_overview_rates(
                 ui_overview_bucket(
                    [tips |-> 0, wins |-> 0, places |-> 0, stakes |-> 0,
                     return |-> 0], last.rows)),
           rollup |->
              compute_day_rollup(
                 [tips_total |-> 0, turnover |-> 0, wins |-> 0,
                  return |-> 0], last.rows),
           aggs |-> _aggregate_rows([ty \in TipTypes |-> NoAgg], last.rows),
           stats |->
              [ty \in TipTypes |->
                 _aggs_to_tip_type_stats(
                    _aggregate_rows([t \in TipTypes |-> NoAgg],
                                    last.rows)[ty])],
           trend |-> TrendRates(
              update_bucket(
                 [tips |-> 0, wins |-> 0, seconds |-> 0, thirds |-> 0],
                 last.rows))]
    /\ UNCHANGED <<race_results, tip_outcomes, runs, catalogue, trends_cache>>

StatsNext == Aggregate

StatsSpec == StatsInit /\ [][StatsNext]_vars

(***************************************************************************)
(* trends_analytics._fetch_results_for_date with its cache.  The clock     *)
(* moves between the calls, in steps of TickSeconds.                       *)
(***************************************************************************)
_CACHE_TTL_SECONDS == 300
TickSeconds == 100
MaxClock == 500

\* _is_cache_valid
_is_cache_valid_Always(timestamp) == TRUE
_is_cache_valid(timestamp) == (clock - timestamp) < _CACHE_TTL_SECONDS

\* "if use_cache and d in _results_cache: ... if _is_cache_valid(timestamp)"
CacheHit(d) ==
    /\ d \in DOMAIN results_cache
    /\ _is_cache_valid(results_cache[d].timestamp)

\* the answers of the crawler to the attempts of one call
W1 == RAItem(RosehillGardens, Winner)
Answers ==
    { [ok |-> FALSE, items |-> <<>>],
      [ok |-> TRUE, items |-> <<W1>>],
      [ok |-> TRUE, items |-> <<W1, NotAnObject>>] }

\* the attempts a call makes: up to the first that gets through
Calls(answers) ==
    IF \E k \in DOMAIN answers :
          /\ answers[k].ok
          /\ \A i \in DOMAIN answers[k].items : ~FlatRaises(answers[k].items[i])
    THEN CHOOSE k \in DOMAIN answers :
          /\ answers[k].ok
          /\ \A i \in DOMAIN answers[k].items : ~FlatRaises(answers[k].items[i])
          /\ \A j \in 1..(k - 1) :
                \/ ~answers[j].ok
                \/ \E i \in DOMAIN answers[j].items :
                      FlatRaises(answers[j].items[i])
    ELSE Len(answers)

CacheInit ==
    /\ race_results = {}
    /\ tip_outcomes = {}
    /\ runs = [p \in RunIds |-> Idle]
    /\ Stocked
    /\ ColdCache
    /\ last = [op |-> "init", d |-> 0, from_cache |-> FALSE, ok |-> FALSE,
               calls |-> 0, answers |-> <<>>, returned |-> <<>>]

Tick ==
    /\ clock < MaxClock
    /\ clock' = clock + TickSeconds
    /\ UNCHANGED <<race_results, tip_outcomes, last, runs, catalogue,
                   results_cache>>

\* _fetch_results_for_date(d) served from the cache
FetchCached ==
    /\ \E d \in Dates :
          /\ CacheHit(d)
          /\ last' = [op |-> "fetch", d |-> d, from_cache |-> TRUE,
                      ok |-> TRUE, calls |-> 0, answers |-> <<>>,
                      returned |-> results_cache[d].results]
    /\ UNCHANGED <<race_results, tip_outcomes, runs, catalogue,
                   trends_cache>>

\* _fetch_results_for_date(d) that asks the crawler
StoreFetched(d, answers, f) ==
    /\ results_cache' =
          IF f.ok
          THEN [x \in DOMAIN results_cache \cup {d} |->
                  IF x = d
                  THEN [timestamp |-> clock, results |-> f.results]
                  ELSE results_cache[x]]
          ELSE results_cache
    /\ last' = [op |-> "fetch", d |-> d, from_cache |-> FALSE, ok |-> f.ok,
                calls |-> Calls(answers), answers |-> answers,
                returned |-> f.results]

FetchFromCrawler ==
    /\ \E d \in Dates :
          /\ ~CacheHit(d)
          /\ \E answers \in [1..max_retries -> Answers] :
                StoreFetched(d, answers, FetchAttempts(<<>>, answers))
    /\ UNCHANGED <<race_results, tip_outcomes, runs, catalogue, clock>>

CacheNext ==
    \/ Tick
    \/ FetchCached
    \/ FetchFromCrawler

CacheSpec == CacheInit /\ [][CacheNext]_vars

(***************************************************************************)
(* The two fuzzy matchers of track names: daily_generator._tracks_match    *)
(* and meeting_best_analytics._tracks_match.                               *)
(***************************************************************************)
\* daily_generator._normalize_track_name
_normalize_track_name(name) ==
    IF name = NoText THEN <<>>
    ELSE StrLower(StrStrip(CollapseSpaces(name)))

\* daily_generator._tracks_match, on the normalized names
NormalizedMatch_OneWay(na, nb) ==
    /\ na # <<>> /\ nb # <<>>
    /\ \/ na = nb
       \/ StartsWith(na, nb) \/ EndsWith(na, nb)
NormalizedMatch(na, nb) ==
    /\ na # <<>> /\ nb # <<>>
    /\ \/ na = nb
       \/ StartsWith(na, nb) \/ EndsWith(na, nb)
       \/ StartsWith(nb, na) \/ EndsWith(nb, na)
       \/ Contains(na, nb) \/ Contains(nb, na)

_tracks_match(a, b) ==
    NormalizedMatch(_normalize_track_name(a), _normalize_track_name(b))

\* meeting_best_analytics._tracks_match: the pairs of "variations"
variations == <<
    << <<"r","o","s","e","h","i","l","l">>, <<"r","o","s","e","h","i","l","l"," ","g","a","r","d","e","n","s">> >>,
    << <<"s","a","n","d","o","w","n">>, <<"s","a","n","d","o","w","n"," ","l","a","k","e","s","i","d","e">> >>,
    << <<"s","a","n","d","o","w","n">>, <<"s","a","n","d","o","w","n"," ","h","i","l","l","s","i","d","e">> >>,
    << <<"m","o","r","p","h","e","t","t","v","i","l","l","e">>,
       <<"m","o","r","p","h","e","t","t","v","i","l","l","e"," ","p","a","r","k","s">> >>,
    << <<"r","a","n","d","w","i","c","k">>, <<"r","o","y","a","l"," ","r","a","n","d","w","i","c","k">> >> >>

\* meeting_best_analytics._tracks_match, on the lowered, stripped names
VariationMatch(t1, t2) ==
    \/ t1 = t2
    \/ Contains(t2, t1) \/ Contains(t1, t2)
    \/ \E i \in DOMAIN variations :
          \/ Contains(t1, variations[i][1]) /\ Contains(t2, variations[i][2])
          \/ Contains(t1, variations[i][2]) /\ Contains(t2, variations[i][1])
          \/ t1 = variations[i][1] /\ Contains(t2, variations[i][2])
          \/ t2 = variations[i][1] /\ Contains(t1, variations[i][2])

meeting_best_tracks_match(track1, track2) ==
    VariationMatch(StrStrip(StrLower(track1)), StrStrip(StrLower(track2)))

\* the names the matchers are given
Sandown == <<"S","a","n","d","o","w","n">>
SandownLakeside == 
    <<"S","a","n","d","o","w","n"," ","L","a","k","e","s","i","d","e">>
SandownHillside == 
    <<"S","A","N","D","O","W","N"," ","H","I","L","L","S","I","D","E">>
Kyneton == <<"K","y","n","e","t","o","n">>
Bet365ParkKyneton == 
    <<"b","e","t","3","6","5"," "," ","P","a","r","k"," ","K","y","n","e","t","o","n">>
PaddedKyneton == <<" ","K","y","n","e","t","o","n"," ">>
Blank == <<" ">>
CanterburyPark == 
    <<"C","a","n","t","e","r","b","u","r","y"," ","P","a","r","k">>
MatchNames ==
    { <<>>, Blank, Rosehill, RosehillGardens, Sandown, SandownLakeside,
      SandownHillside, Kyneton, Bet365ParkKyneton, PaddedKyneton,
      CanterburyPark }

MatchInit ==
    /\ race_results = {}
    /\ tip_outcomes = {}
    /\ runs = [p \in RunIds |-> Idle]
    /\ Stocked
    /\ ColdCache
    /\ \E a \in MatchNames, b \in MatchNames :
          last = [op |-> "input", a |-> a, b |-> b]

TracksMatch ==
    /\ last.op = "input"
    /\ last' = [op |-> "matched", a |-> last.a, b |-> last.b,
                generator |-> _tracks_match(last.a, last.b),
                generator_swapped |-> _tracks_match(last.b, last.a),
                meeting_best |-> meeting_best_tracks_match(last.a, last.b),
                meeting_best_swapped |->
                    meeting_best_tracks_match(last.b, last.a)]
    /\ UNCHANGED <<race_results, tip_outcomes, runs, catalogue, trends_cache>>

MatchNext == TracksMatch

MatchSpec == MatchInit /\ [][MatchNext]_vars

(***************************************************************************)
(* The attach on a store as it may find it: results of several providers   *)
(* for the runner of a tip that was stored after them, results of other    *)
(* runners and races, and the tip with or without an outcome.              *)
(***************************************************************************)
StoredResult(provider, race_id, tab_number, finish_position) ==
    [id |-> <<provider, race_id, tab_number>>, provider |-> provider,
     race_id |-> race_id, tab_number |-> tab_number, horse_name |-> None,
     finish_position |-> finish_position, status |-> None,
     margin_text |-> NoText, starting_price |-> NoneNum]

\* the RaceResult rows a store may hold
StoredResults ==
    { StoredResult("PF", "r1", 4, 1), StoredResult("RA", "r1", 4, 2),
      StoredResult("TAB", "r1", 4, 3), StoredResult("BETFAIR", "r1", 4, 5),
      StoredResult("RA", "r1", 5, 1), StoredResult("PF", "r2", 4, 1) }

\* the TipOutcome rows a store may hold
StoredOutcomes ==
    { [tip_id |-> "t1", provider |-> "RA", race_result_id |-> NoId,
       finish_position |-> 9, outcome_status |-> "LOSE",
       starting_price |-> NoneNum] }

AttachInit ==
    /\ race_results \in SUBSET StoredResults
    /\ tip_outcomes \in SUBSET StoredOutcomes
    /\ runs = [p \in RunIds |-> Idle]
    /\ Stocked
    /\ ColdCache
    /\ last = [op |-> "init", log |-> NoLog]

AttachNext == AttachTipOutcomes

AttachSpec == AttachInit /\ [][AttachNext]_vars

(***************************************************************************)
(* trends_analytics.compute_trends: the bucket keys                        *)
(***************************************************************************)
Digits == <<"0","1","2","3","4","5","6","7","8","9">>

DigitValue(c) == (CHOOSE i \in DOMAIN Digits : Digits[i] = c) - 1

IsDigit(c) == \E i \in DOMAIN Digits : Digits[i] = c

\* int(text) of a text of digits
RECURSIVE TextToInt(_)
TextToInt(t) ==
    IF t = <<>> THEN 0
    ELSE TextToInt(SubSeq(t, 1, Len(t) - 1)) * 10 + DigitValue(t[Len(t)])

\* str(n) of a natural number
RECURSIVE IntToText(_)
IntToText(n) ==
    IF n < 10 THEN <<Digits[n + 1]>>
    ELSE IntToText(n \div 10) \o <<Digits[(n % 10) + 1]>>

\* the longest run of digits at the head of a text
RECURSIVE LeadingDigits(_)
LeadingDigits(t) ==
    IF t # <<>> /\ IsDigit(Head(t)) THEN <<Head(t)>> \o LeadingDigits(Tail(t))
    ELSE <<>>

\* re.search(r'(?:w1|w2|...)\s*(\d+)', text).group(1), or an empty text when
\* nothing matches
NumberAfter(text, words) ==
    LET after(i, w) == LStrip(SubSeq(text, i + Len(w), Len(text)))
        hit(i, w) == /\ StartsWith(SubSeq(text, i, Len(text)), w)
                     /\ LeadingDigits(after(i, w)) # <<>>
        at == { i \in DOMAIN text : \E k \in DOMAIN words : hit(i, words[k]) }
        first == CHOOSE i \in at : \A j \in at : i <= j
        word == words[CHOOSE k \in DOMAIN words :
                         /\ hit(first, words[k])
                         /\ \A j \in 1..(k - 1) : ~hit(first, words[j])]
    IN  IF at = {} THEN <<>> ELSE LeadingDigits(after(first, word))

_get_distance_bucket(distance_m) ==
    IF distance_m = NoneNum THEN "Unknown"
    ELSE IF distance_m < 1000 THEN "Sprint (<1000m)"
    ELSE IF distance_m < 1200 THEN "1000-1199m"
    ELSE IF distance_m < 1400 THEN "1200-1399m"
    ELSE IF distance_m < 1600 THEN "1400-1599m"
    ELSE IF distance_m < 1800 THEN "1600-1799m"
    ELSE IF distance_m < 2000 THEN "1800-1999m"
    ELSE IF distance_m < 2400 THEN "2000-2399m"
    ELSE "Stayer (2400m+)"

\* the labels of the price buckets, in the order of Python's str comparison
PriceLabels ==
    << "$1.01-$1.99 (Hot Fav)", "$10.00-$14.99", "$15.00-$20.99",
       "$2.00-$2.99 (Fav)", "$21.00+ (Roughie)", "$3.00-$3.99",
       "$4.00-$5.99", "$6.00-$9.99", "Unknown" >>

\* prices are in hundredths
_get_price_bucket(sp) ==
    IF sp = NoneNum THEN "Unknown"
    ELSE IF sp < 200 THEN "$1.01-$1.99 (Hot Fav)"
    ELSE IF sp < 300 THEN "$2.00-$2.99 (Fav)"
    ELSE IF sp < 400 THEN "$3.00-$3.99"
    ELSE IF sp < 600 THEN "$4.00-$5.99"
    ELSE IF sp < 1000 THEN "$6.00-$9.99"
    ELSE IF sp < 1500 THEN "$10.00-$14.99"
    ELSE IF sp < 2100 THEN "$15.00-$20.99"
    ELSE "$21.00+ (Roughie)"

metro_tracks == {
    <<"f","l","e","m","i","n","g","t","o","n">>,
    <<"c","a","u","l","f","i","e","l","d">>,
    <<"m","o","o","n","e","e"," ","v","a","l","l","e","y">>,
    <<"s","a","n","d","o","w","n">>,
    <<"r","a","n","d","w","i","c","k">>,
    <<"r","o","y","a","l"," ","r","a","n","d","w","i","c","k">>,
    <<"r","o","s","e","h","i","l","l">>,
    <<"w","a","r","w","i","c","k"," ","f","a","r","m">>,
    <<"c","a","n","t","e","r","b","u","r","y">>,
    <<"d","o","o","m","b","e","n">>,
    <<"e","a","g","l","e"," ","f","a","r","m">>,
    <<"m","o","r","p","h","e","t","t","v","i","l","l","e">>,
    <<"m","o","r","p","h","e","t","t","v","i","l","l","e"," ","p","a","r","k","s">>,
    <<"a","s","c","o","t">>,
    <<"b","e","l","m","o","n","t">> }

provincial_indicators ==
    { <<"p","a","r","k">>, <<"g","a","r","d","e","n","s">>,
      <<"l","a","k","e","s","i","d","e">> }

_get_track_type(track_name) ==
    IF \E metro \in metro_tracks : Contains(StrLower(track_name), metro)
    THEN "Metro"
    ELSE IF \E ind \in provincial_indicators :
               Contains(StrLower(track_name), ind)
    THEN "Provincial"
    ELSE "Provincial/Country"

\* the benchmark bands
BenchmarkBucket(bm) ==
    IF bm <= 58 THEN <<"B","M","5","8"," ","&"," ","b","e","l","o","w">>
    ELSE IF bm <= 68 THEN <<"B","M","6","4","-","6","8">>
    ELSE IF bm <= 78 THEN <<"B","M","7","2","-","7","8">>
    ELSE <<"B","M","8","2","+">>

\* the class of a lowered text
ClassOfText(text) ==
    IF Contains(text, <<"m","a","i","d","e","n">>) THEN <<"M","a","i","d","e","n">>
    ELSE IF \/ Contains(text, <<"b","e","n","c","h","m","a","r","k">>)
            \/ Contains(text, <<"b","m">>)
    THEN IF NumberAfter(text, << <<"b","e","n","c","h","m","a","r","k">>,
                                 <<"b","m">> >>) # <<>>
         THEN BenchmarkBucket(TextToInt(
                  NumberAfter(text, << <<"b","e","n","c","h","m","a","r","k">>,
                                       <<"b","m">> >>)))
         ELSE <<"B","e","n","c","h","m","a","r","k">>
    ELSE IF Contains(text, <<"c","l","a","s","s">>)
    THEN IF NumberAfter(text, << <<"c","l","a","s","s">> >>) # <<>>
         THEN <<"C","l","a","s","s"," ">>
              \o NumberAfter(text, << <<"c","l","a","s","s">> >>)
         ELSE <<"C","l","a","s","s"," ","r","a","c","e">>
    ELSE IF \/ Contains(text, <<"g","r","o","u","p">>)
            \/ Contains(text, <<"g","1">>) \/ Contains(text, <<"g","2">>)
            \/ Contains(text, <<"g","3">>)
    THEN <<"G","r","o","u","p","/","S","t","a","k","e","s">>
    ELSE IF Contains(text, <<"l","i","s","t","e","d">>) THEN <<"L","i","s","t","e","d">>
    ELSE IF Contains(text, <<"r","e","s","t","r","i","c","t","e","d">>)
    THEN <<"R","e","s","t","r","i","c","t","e","d">>
    ELSE IF Contains(text, <<"h","a","n","d","i","c","a","p">>)
    THEN <<"H","a","n","d","i","c","a","p">>
    ELSE IF Contains(text, <<"o","p","e","n">>) THEN <<"O","p","e","n">>
    ELSE <<"O","t","h","e","r">>

_get_class_bucket(class_text, race_name) ==
    ClassOfText(StrLower(class_text \o <<" ">> \o race_name))

\* f"Race {tip.race_number}"
RaceNumberKey(race_number) == <<"R","a","c","e"," ">> \o IntToText(race_number)

\* tip.state or "Unknown"
StateKey(state) == IF state = NoText THEN <<"U","n","k","n","o","w","n">> ELSE state

\* f"{tip.track_name} ({tip.state})"
TrackKey(track_name, state) == track_name \o <<" ", "(">> \o state \o <<")">>

(***************************************************************************)
(* trends_analytics.compute_trends                                         *)
(***************************************************************************)
\* the rows of a table in the order a query returns them
RECURSIVE AsList(_)
AsList(S) ==
    IF S = {} THEN <<>>
    ELSE <<CHOOSE x \in S : TRUE>> \o AsList(S \ {CHOOSE x \in S : TRUE})

RECURSIVE Concat(_)
Concat(lists) ==
    IF lists = <<>> THEN <<>> ELSE Head(lists) \o Concat(Tail(lists))

FlatTip(d, meeting, race, tip) ==
    [meeting_date |-> d, state |-> StrUpper(meeting.state),
     track_name |-> meeting.track_name, race_number |-> race.race_number,
     tab_number |-> tip.tab_number,
     tip_type |-> IF tip.tip_type = None THEN "UNKNOWN" ELSE tip.tip_type,
     distance_m |-> race.distance_m, class_text |-> race.class_text,
     race_name |-> race.name]

\* "for race in meeting.races: for tip in race.tips"
TipsOfRace(d, meeting, race) ==
    LET rows == AsList({ t \in tips : t.race_id = race.id })
    IN  [i \in DOMAIN rows |-> FlatTip(d, meeting, race, rows[i])]

TipsOfMeeting(d, meeting) ==
    LET rows == AsList({ r \in races : r.meeting_id = meeting.id })
    IN  Concat([i \in DOMAIN rows |-> TipsOfRace(d, meeting, rows[i])])

_fetch_tips_from_db(d) ==
    LET rows == AsList({ m \in meetings : m.date = d })
    IN  Concat([i \in DOMAIN rows |-> TipsOfMeeting(d, rows[i])])

\* FlatResult.meeting_date: the rows of a fetch with the date they were
\* asked for
DatedResults(d, results) ==
    [i \in DOMAIN results |-> [meeting_date |-> d, row |-> results[i]]]

\* the list _fetch_results_for_date(day) returns to compute_trends
DayResults(d, answers) ==
    IF CacheHit(d) THEN results_cache[d].results
    ELSE FetchAttempts(<<>>, answers).results

\* the days whose fetch stores its list in the cache
DaysStored(days, answers) ==
    { d \in days : ~CacheHit(d) /\ FetchAttempts(<<>>, answers[d]).ok }

\* (r.meeting_date, r.state, r.race_no, r.horse_number)
ResultIndexKey(r) ==
    <<r.meeting_date, r.row.state, r.row.race_no, r.row.horse_number>>

\* _build_results_index: of the results of one key the first is kept
_build_results_index(results) ==
    LET first == { i \in DOMAIN results :
                     \A j \in 1..(i - 1) :
                        ResultIndexKey(results[j]) # ResultIndexKey(results[i]) }
    IN  { results[i] : i \in first }

NoResult == [meeting_date |-> 0]

\* results_index.get(lookup_key)
IndexGet(results_index, lookup_key) ==
    IF \E r \in results_index : ResultIndexKey(r) = lookup_key
    THEN CHOOSE r \in results_index : ResultIndexKey(r) = lookup_key
    ELSE NoResult

NewBucket(key) ==
    [label |-> key, tips |-> 0, wins |-> 0, seconds |-> 0, thirds |-> 0]

\* update_bucket(buckets, key, pos) of compute_trends; a dict is the list of
\* its values in the order of insertion
Tally(bucket, pos) ==
    [bucket EXCEPT !.tips = @ + 1,
                   !.wins = @ + (IF pos = 1 THEN 1 ELSE 0),
                   !.seconds = @ + (IF pos = 2 THEN 1 ELSE 0),
                   !.thirds = @ + (IF pos = 3 THEN 1 ELSE 0)]

WithKey(buckets, key) ==
    IF \E i \in DOMAIN buckets : buckets[i].label = key THEN buckets
    ELSE Append(buckets, NewBucket(key))

UpdateBuckets(buckets, key, pos) ==
    [i \in DOMAIN WithKey(buckets, key) |->
        IF WithKey(buckets, key)[i].label = key
        THEN Tally(WithKey(buckets, key)[i], pos)
        ELSE WithKey(buckets, key)[i]]

Dimensions ==
    {"by_distance", "by_price", "by_track_type", "by_race_number", "by_class",
     "by_state", "by_tip_type", "by_track"}

NoTrends ==
    [total_tips |-> 0, matched_tips |-> 0, scratched_tips |-> 0,
     no_result_tips |-> 0,
     by |-> [dim \in Dimensions |-> <<>>]]

\* the bucket key of a tip in a dimension
BucketKey(dim, tip, sp) ==
    CASE dim = "by_distance" -> _get_distance_bucket(tip.distance_m)
      [] dim = "by_price" -> _get_price_bucket(sp)
      [] dim = "by_track_type" -> _get_track_type(tip.track_name)
      [] dim = "by_race_number" -> RaceNumberKey(tip.race_number)
      [] dim = "by_class" -> _get_class_bucket(tip.class_text, tip.race_name)
      [] dim = "by_state" -> StateKey(tip.state)
      [] dim = "by_tip_type" -> tip.tip_type
      [] dim = "by_track" -> TrackKey(tip.track_name, tip.state)

\* a variant that also files the scratched runners in the buckets
ProcessTip_FileScratched(acc, tip, result) ==
    IF result = NoResult
    THEN [acc EXCEPT !.no_result_tips = @ + 1]
    ELSE [acc EXCEPT
            !.matched_tips = @ + 1,
            !.scratched_tips = @ + (IF result.row.is_scratched THEN 1 ELSE 0),
            !.total_tips = @ + (IF result.row.is_scratched THEN 0 ELSE 1),
            !.by = [dim \in Dimensions |->
                      UpdateBuckets(@[dim],
                                    BucketKey(dim, tip,
                                              result.row.starting_price),
                                    result.row.finishing_pos)]]

\* the body of "for tip in all_tips"
ProcessTip(acc, tip, result) ==
    IF result = NoResult
    THEN [acc EXCEPT !.no_result_tips = @ + 1]
    ELSE IF result.row.is_scratched
    THEN [acc EXCEPT !.matched_tips = @ + 1, !.scratched_tips = @ + 1]
    ELSE [acc EXCEPT
            !.matched_tips = @ + 1,
            !.total_tips = @ + 1,
            !.by = [dim \in Dimensions |->
                      UpdateBuckets(@[dim],
                                    BucketKey(dim, tip,
                                              result.row.starting_price),
                                    result.row.finishing_pos)]]

TipLookupKey(tip) ==
    <<tip.meeting_date, tip.state, tip.race_number, tip.tab_number>>

RECURSIVE ProcessTips(_, _, _)
ProcessTips(acc, all_tips, results_index) ==
    IF all_tips = <<>> THEN acc
    ELSE ProcessTips(
            ProcessTip(acc, Head(all_tips),
                       IndexGet(results_index, TipLookupKey(Head(all_tips)))),
            Tail(all_tips), results_index)

\* the smallest bucket a per-dimension list shows, and the smallest bucket
\* an insight is drawn from
min_bucket_tips == 5
min_tips == 10

\* TrendBucket.to_dict, the rates without their rounding
to_dict(b) ==
    [label |-> b.label, tips |-> b.tips, wins |-> b.wins,
     seconds |-> b.seconds, thirds |-> b.thirds,
     podium |-> b.wins + b.seconds + b.thirds,
     win_strike_rate |-> win_strike_rate(b),
     place_strike_rate |-> place_strike_rate(b)]

\* list.sort: items[i] comes after the items that are before it and after
\* the earlier items that are neither before nor after it
Sorted(items, Before(_, _)) ==
    LET place(i) ==
            1 + Cardinality({ j \in DOMAIN items : Before(items[j], items[i]) })
              + Cardinality({ j \in 1..(i - 1) :
                                /\ ~Before(items[j], items[i])
                                /\ ~Before(items[i], items[j]) })
    IN  [k \in DOMAIN items |-> items[CHOOSE i \in DOMAIN items : place(i) = k]]

\* "items = [b for b in items if b.tips >= 5]"
Shown_All(buckets) == buckets
Shown(buckets) == SelectSeq(buckets, LAMBDA b : b.tips >= min_bucket_tips)

RateAbove(x, y) == x[1] * y[2] > y[1] * x[2]

HigherWinRate(a, b) == RateAbove(win_strike_rate(a), win_strike_rate(b))

LabelRank(label) == CHOOSE i \in DOMAIN PriceLabels : PriceLabels[i] = label

LowerLabel(a, b) == LabelRank(a.label) < LabelRank(b.label)

\* int(x.label.replace("Race ", "")) if x.label.startswith("Race ") else 99
RaceNumberOf(label) ==
    IF StartsWith(label, <<"R","a","c","e"," ">>)
    THEN TextToInt(StrReplace(label, <<"R","a","c","e"," ">>, <<>>))
    ELSE 99

EarlierRace(a, b) == RaceNumberOf(a.label) < RaceNumberOf(b.label)

ToDicts(items) == [i \in DOMAIN items |-> to_dict(items[i])]

sort_buckets(buckets, sort_key) ==
    IF sort_key = "label"
    THEN ToDicts(Sorted(Shown(buckets), LowerLabel))
    ELSE ToDicts(Sorted(Shown(buckets), HigherWinRate))

sort_race_numbers(buckets) == ToDicts(Sorted(Shown(buckets), EarlierRace))

RECURSIVE SumOf(_, _)
SumOf(buckets, field) ==
    IF buckets = <<>> THEN 0
    ELSE Head(buckets)[field] + SumOf(Tail(buckets), field)

\* the "overall" entry: the sums over by_tip_type
Overall(by_tip_type) ==
    [tips |-> SumOf(by_tip_type, "tips"),
     wins |-> SumOf(by_tip_type, "wins"),
     seconds |-> SumOf(by_tip_type, "seconds"),
     thirds |-> SumOf(by_tip_type, "thirds"),
     podium |-> SumOf(by_tip_type, "wins") + SumOf(by_tip_type, "seconds")
                + SumOf(by_tip_type, "thirds"),
     win_strike_rate |->
         Rate(SumOf(by_tip_type, "wins") * 100, SumOf(by_tip_type, "tips")),
     place_strike_rate |->
         Rate((SumOf(by_tip_type, "wins") + SumOf(by_tip_type, "seconds")
               + SumOf(by_tip_type, "thirds")) * 100,
              SumOf(by_tip_type, "tips"))]

\* best_in_category: the first bucket of the highest and of the lowest win
\* rate among those of min_tips tips or more
BestInCategory(items, category) ==
    [category |-> category,
     best |-> items[CHOOSE i \in DOMAIN items :
                 /\ \A j \in DOMAIN items : ~HigherWinRate(items[j], items[i])
                 /\ \A j \in 1..(i - 1) : HigherWinRate(items[i], items[j])].label,
     worst |-> items[CHOOSE i \in DOMAIN items :
                 /\ \A j \in DOMAIN items : ~HigherWinRate(items[i], items[j])
                 /\ \A j \in 1..(i - 1) : HigherWinRate(items[j], items[i])].label]

InsightDimensions ==
    << "by_distance", "by_price", "by_track_type", "by_race_number",
       "by_class", "by_state", "by_tip_type" >>

_generate_insights(by) ==
    LET large(dim) == SelectSeq(by[dim], LAMBDA b : b.tips >= min_tips)
        with == SelectSeq(InsightDimensions, LAMBDA dim : large(dim) # <<>>)
    IN  [i \in DOMAIN with |-> BestInCategory(large(with[i]), with[i])]

\* the dictionary compute_trends returns once the tips are processed
TrendsOutput(acc) ==
    IF acc.total_tips = 0
    THEN [has_data |-> FALSE, error |-> "No tips found after filtering"]
    ELSE [has_data |-> TRUE,
          overall |-> Overall(acc.by["by_tip_type"]),
          by |-> [dim \in Dimensions |->
                    IF dim = "by_race_number"
                    THEN sort_race_numbers(acc.by[dim])
                    ELSE IF dim = "by_price"
                    THEN sort_buckets(acc.by[dim], "label")
                    ELSE sort_buckets(acc.by[dim], "win_strike_rate")],
          insights |-> _generate_insights(acc.by)]

\* the days of the window, ascending
WindowDays(date_from, date_to) ==
    [i \in 1..(date_to - date_from + 1) |-> date_from + i - 1]

\* compute_trends from the tips and the results of the window: what it
\* counted and what it returns
TrendsOf(all_tips, all_results) ==
    IF all_tips = <<>>
    THEN [acc |-> NoTrends,
          out |-> [has_data |-> FALSE, error |-> "No tips found"]]
    ELSE [acc |-> ProcessTips(NoTrends, all_tips,
                              _build_results_index(all_results)),
          out |-> TrendsOutput(ProcessTips(NoTrends, all_tips,
                                           _build_results_index(all_results)))]

\* answers[d]: the crawler's answers to the attempts of the fetch of day d
compute_trends(date_from, date_to, answers) ==
    TrendsOf(
        Concat([i \in DOMAIN WindowDays(date_from, date_to) |->
                  _fetch_tips_from_db(WindowDays(date_from, date_to)[i])]),
        Concat([i \in DOMAIN WindowDays(date_from, date_to) |->
                  DatedResults(WindowDays(date_from, date_to)[i],
                               DayResults(WindowDays(date_from, date_to)[i],
                                          answers[WindowDays(date_from,
                                                             date_to)[i]]))]))

(***************************************************************************)
(* compute_trends over a stock of tips: a meeting at Rosehill Gardens on   *)
(* date 1 with up to MaxTab tipped runners in race 3, a meeting at         *)
(* Ballarat on date 2 with up to two tipped runners in race 10.            *)
(***************************************************************************)
MaxTab == 6

NSW == <<"N","S","W">>

TrendMeetings == {
    [id |-> "m1", date |-> 1, track_name |-> RosehillGardens,
     state |-> StrLower(NSW), pf_meeting_id |-> 101],
    [id |-> "m2", date |-> 2, track_name |-> SportsbetBallarat, state |-> VIC,
     pf_meeting_id |-> 102] }

TrendRaces == {
    [id |-> "r1", meeting_id |-> "m1", race_number |-> 3, distance_m |-> 1200,
     class_text |-> <<"B","e","n","c","h","m","a","r","k"," ","6","4">>,
     name |-> NoText],
    [id |-> "r2", meeting_id |-> "m2", race_number |-> 10,
     distance_m |-> NoneNum, class_text |-> NoText,
     name |-> <<"M","a","i","d","e","n"," ","P","l","a","t","e">>] }

TrendTip(race_id, tab_number, tip_type) ==
    [id |-> <<race_id, tab_number>>, race_id |-> race_id,
     tab_number |-> tab_number, tip_type |-> tip_type]

\* the tips a stock may hold
TrendTipSets ==
    { { TrendTip("r1", tab, IF tab <= 5 THEN "AI_BEST" ELSE "DANGER") :
          tab \in 1..n } \cup others :
        n \in 0..MaxTab,
        others \in SUBSET { TrendTip("r2", 1, "DANGER"),
                            TrendTip("r2", 2, None) } }

TrendItem(state, track, race_no, horse_number, finishing_pos, is_scratched,
          starting_price) ==
    [obj |-> TRUE, state |-> state, track |-> track, race_no |-> race_no,
     horse_number |-> horse_number, horse_name |-> HorseName,
     finishing_pos |-> finishing_pos, is_scratched |-> is_scratched,
     margin_lens |-> NoneNum, starting_price |-> starting_price]

\* the crawler's results of a date
Sheet(d) ==
    IF d = 1
    THEN << TrendItem(NSW, Rosehill, 3, 1, 1, FALSE, 180),
            TrendItem(NSW, Rosehill, 3, 2, 2, FALSE, 250),
            TrendItem(NSW, Rosehill, 3, 3, 3, FALSE, 500),
            TrendItem(NSW, Rosehill, 3, 4, 1, FALSE, 360),
            TrendItem(NSW, Rosehill, 3, 5, NoneNum, FALSE, NoneNum),
            TrendItem(NSW, Rosehill, 3, 6, NoneNum, TRUE, NoneNum),
            TrendItem(NSW, Rosehill, 3, 1, 4, FALSE, 180) >>
    ELSE << TrendItem(StrLower(VIC), Ballarat, 10, 1, 2, FALSE, 2500) >>

\* the answers to the attempts of one fetch: every request fails; every
\* answer is the sheet; every answer holds a row and an item that is not an
\* object; every answer is empty; the first request fails
TrendAnswers(d) ==
    { [a \in 1..max_retries |-> [ok |-> FALSE, items |-> <<>>]],
      [a \in 1..max_retries |-> [ok |-> TRUE, items |-> Sheet(d)]],
      [a \in 1..max_retries |->
          [ok |-> TRUE, items |-> <<Sheet(d)[1], NotAnObject>>]],
      [a \in 1..max_retries |-> [ok |-> TRUE, items |-> <<>>]],
      [a \in 1..max_retries |->
          IF a = 1 THEN [ok |-> FALSE, items |-> <<>>]
          ELSE [ok |-> TRUE, items |-> Sheet(d)]] }

\* the cache is empty, or holds the sheet of date 1 from an earlier call
TrendCaches ==
    { <<>>,
      [d \in {1} |-> [timestamp |-> 0, results |-> FlatResults(Sheet(1))]] }

TrendsInit ==
    /\ race_results = {}
    /\ tip_outcomes = {}
    /\ runs = [p \in RunIds |-> Idle]
    /\ meetings = TrendMeetings
    /\ races = TrendRaces
    /\ tip_runs = {}
    /\ tips \in TrendTipSets
    /\ uuids = 0
    /\ clock = 0
    /\ results_cache \in TrendCaches
    /\ last = [op |-> "init"]

\* the days of a window
DaysOf(date_from, date_to) == { d \in Dates : date_from <= d /\ d <= date_to }

\* compute_trends(db, date_from, date_to): the fetches fill the cache
ComputeTrends ==
    /\ last.op = "init"
    /\ \E date_from \in Dates, date_to \in Dates :
       \E a1 \in TrendAnswers(1), a2 \in TrendAnswers(2) :
          /\ last' = [op |-> "compute_trends",
                      date_from |-> date_from, date_to |-> date_to,
                      failed |-> { d \in DaysOf(date_from, date_to) :
                                     /\ ~CacheHit(d)
                                     /\ ~FetchAttempts(<<>>, <<a1, a2>>[d]).ok },
                      trends |-> compute_trends(date_from, date_to, <<a1, a2>>)]
          /\ results_cache' =
                [d \in DOMAIN results_cache
                       \cup DaysStored(DaysOf(date_from, date_to), <<a1, a2>>) |->
                    IF d \in DaysStored(DaysOf(date_from, date_to), <<a1, a2>>)
                    THEN [timestamp |-> clock,
                          results |-> FetchAttempts(<<>>, <<a1, a2>>[d]).results]
                    ELSE results_cache[d]]
    /\ UNCHANGED <<race_results, tip_outcomes, runs, catalogue, clock>>

TrendsNext == ComputeTrends

TrendsSpec == TrendsInit /\ [][TrendsNext]_vars

(***************************************************************************)
(* Two runs of one job for one date at the same time (a cron retry, a      *)
(* manual re-trigger), each in its own process with its own session: the   *)
(* daily job (results_daily_job.run_results_for_window) or the crawler     *)
(* import (results_ra.fetch_results_for_date).  A run takes one step for   *)
(* each runner of its feed (the lookups and the db.add of the loop body)   *)
(* and one for its commit.  A query of a run sees what is committed when   *)
(* it is made; an object the session has loaded stays as the session has   *)
(* it.                                                                     *)
(***************************************************************************)
Jobs == {"results_daily_job", "results_ra"}

Refresh(sess, store) ==
    [sess EXCEPT
        !.rr = @ \cup { x \in store.rr : \A y \in sess.rr : y.id # x.id },
        !.to = @ \cup { o \in store.to :
                          \A y \in sess.to : y.tip_id # o.tip_id }]

\* the passes of "for runner in runners" that results_ra makes for a
\* payload, in order, each with the Race it has found
RECURSIVE RaceSteps(_, _, _)
RaceSteps(meeting, races_json, i) ==
    IF i > Len(races_json) THEN <<>>
    ELSE LET race == CHOOSE x \in RacesFound(meeting, races_json[i]) : TRUE
             runners == races_json[i].results
         IN  AsText([k \in 1..Len(runners) |->
                        [race |-> race, runner |-> runners[k]]])
             \o RaceSteps(meeting, races_json, i + 1)

RECURSIVE MeetingSteps(_, _, _)
MeetingSteps(d, meetings_json, i) ==
    IF i > Len(meetings_json) THEN <<>>
    ELSE RaceSteps(CHOOSE x \in MeetingsFound(d, meetings_json[i]) : TRUE,
                   meetings_json[i].races, 1)
         \o MeetingSteps(d, meetings_json, i + 1)

\* what the runs of a job are given for date d, and the loop passes they
\* make of it
JobResponses(job, d) ==
    IF job = "results_daily_job" THEN RAResponses(d)
    ELSE { r \in RAMeetingsResponses(d) : PayloadStored(d, r) }

JobSteps(job, d, r) ==
    IF job = "results_daily_job"
    THEN LET f == RAResultsClient_fetch_results_for_date(r)
         IN  IF f.raised = None THEN f.rows ELSE <<>>
    ELSE MeetingSteps(d, _fetch_ra_results_from_crawler(r), 1)

JobStep(job, sess, d, row) ==
    IF job = "results_daily_job" THEN ApplyRaRow(sess, d, row)
    ELSE ApplyRaRunner(sess, row.race, row.runner)

\* both runs ask the crawler for date d and get the same answer
BeginRuns ==
    /\ \A p \in RunIds : runs[p].pc \in {"idle", "done"}
    /\ \E job \in Jobs, d \in Dates :
       \E r \in JobResponses(job, d) :
          LET rows == JobSteps(job, d, r)
          IN  /\ rows # <<>>
              /\ runs' = [p \in RunIds |->
                            [pc |-> "rows", job |-> job, d |-> d, resp |-> r,
                             rows |-> rows, i |-> 1,
                             sess |-> OpenSession(EmptyStore)]]
              /\ last' = [op |-> "begin", log |-> NoLog, start |-> Store]
    /\ UNCHANGED <<race_results, tip_outcomes, catalogue, trends_cache>>

\* one pass of the body of "for rr in ra_rows" / "for runner in runners"
RowStep(p) ==
    /\ runs[p].pc = "rows"
    /\ LET run == runs[p]
           sess1 == JobStep(run.job, Refresh(run.sess, Store), run.d,
                            run.rows[run.i])
       IN  runs' = [runs EXCEPT
                      ![p].sess = sess1,
                      ![p].i = run.i + 1,
                      ![p].pc = IF run.i = Len(run.rows) THEN "commit"
                                ELSE "rows"]
    /\ UNCHANGED <<race_results, tip_outcomes, last, catalogue, trends_cache>>

\* db.commit() of the run
CommitRun(p, c, log) ==
    /\ race_results' = c.store.rr
    /\ tip_outcomes' = c.store.to
    /\ last' = [op |-> "commit",
                log |-> IF c.ok THEN log
                        ELSE [log EXCEPT !.raised = "IntegrityError"],
                start |-> last.start]
    /\ runs' = [runs EXCEPT ![p].pc = "done"]
    /\ UNCHANGED <<catalogue, trends_cache>>

CommitStep(p) ==
    /\ runs[p].pc = "commit"
    /\ CommitRun(p, Commit(Store, Refresh(runs[p].sess, Store)),
                 LogFlush(last.log, Refresh(runs[p].sess, Store)))

ConcurrentNext ==
    \/ BeginRuns
    \/ \E p \in RunIds : RowStep(p)
    \/ \E p \in RunIds : CommitStep(p)

ConcurrentSpec == Init /\ [][ConcurrentNext]_vars

(***************************************************************************)
(* Properties                                                              *)
(***************************************************************************)
ReconciliationPasses ==
    {"run_results_for_window", "import_pf_results_for_date", "attach"}

\* C1: after any sequence of reconciliation passes every Tip has at most
\* one TipOutcome row, and no pass attempts to insert a second TipOutcome
\* for a tip_id that already has one (committed earlier, or added earlier
\* in the same pass).
C1_OneOutcomePerTip ==
    /\ \A t \in Tips :
          Cardinality({ o \in tip_outcomes : o.tip_id = t.id }) <= 1
    /\ last.op \in ReconciliationPasses => ~last.log.dup_outcome

\* the races a feed row of date d is matched to by _apply_results_for_date
RacesOfRow(d, w) ==
    { r \in Races : \E m \in Meetings :
        /\ m.date = d
        /\ MeetingKey(m) = <<StrUpper(w.state), canon(w.track)>>
        /\ r.meeting_id = m.id
        /\ r.race_number = w.race_no }

\* the stored RA rows that carry the values of feed row w for race r
StoredAs(r, w) ==
    { x \in race_results :
        /\ x.provider = "RA" /\ x.race_id = r.id
        /\ x.tab_number = w.tab_number
        /\ x.horse_name = w.horse_name
        /\ x.finish_position = w.finishing_pos
        /\ x.status = _status_from_result(w)
        /\ x.starting_price = w.starting_price }

\* C2: applying the result upsert of one (provider, race, runner) twice
\* with identical input within one pass (the feed lists the same runner
\* twice, and nothing else of that runner) leaves exactly one RaceResult
\* row of that key, with the field values of the input.
C2_UpsertIdempotent ==
    last.op = "run_results_for_window" =>
        \A d \in Range(last.log.fetched) :
        \A w \in last.log.repeated :
        \A r \in RacesOfRow(d, w) :
            (\A v \in last.log.rows :
                (r \in RacesOfRow(d, v) /\ v.tab_number = w.tab_number)
                    => v = w)
            => /\ Cardinality({ x \in race_results :
                                  ResultKey(x) = <<"RA", r.id, w.tab_number>> })
                    = 1
               /\ StoredAs(r, w) # {}

\* C3: once a TipOutcome has provider PF, a later RA-only pass
\* (run_results_for_window applying _apply_results_for_date) leaves its
\* provider, its race_result reference, its finish position, its status and
\* its starting price unchanged.
C3_PfOutcomeKept ==
    [][ last'.op = "run_results_for_window" =>
            \A o \in tip_outcomes : o.provider = "PF" => o \in tip_outcomes'
      ]_vars

\* C5: a TipOutcome derived from a scratched result (an RA row with
\* is_scratched, a PF runner with a scratched status, a stored RaceResult
\* whose status is SCRATCHED) has status SCRATCHED, on every path that
\* writes outcomes: the RA job, the PF import loop, the attach.
C5_ScratchedOutcome ==
    (last.op \in ReconciliationPasses /\ last.log.raised = None) =>
        \A w \in last.log.writes : w.scratched => w.status = "SCRATCHED"

\* C7: the Tip is for runner 4 of race 3 at the meeting "Rosehill
\* Gardens" (VIC); the only row of the feed names the track "Rosehill"
\* (position 1, starting price 3.60, not scratched).  One RA pass creates
\* the TipOutcome of the tip: WIN at 3.60, and exactly one.
C7_RosehillMatch ==
    (/\ last.op = "run_results_for_window"
     /\ last.log.raised = None
     /\ last.log.committed # <<>>
     /\ last.log.rows = { ParseItem(RAItem(Rosehill, Winner)) })
        => /\ Cardinality({ o \in tip_outcomes : o.tip_id = "t1" }) = 1
           /\ \E o \in tip_outcomes : /\ o.tip_id = "t1"
                                      /\ o.outcome_status = "WIN"
                                      /\ o.starting_price = 360

\* C9: when the request for the results fails, the fetch of the adapter
\* returns an empty list and no exception reaches the caller: the window
\* run of run_results_for_window goes on with the next date.
C9_FetchFailureIsEmpty ==
    last.op = "run_results_for_window" => last.log.raised # "HTTPError"

\* C10: in import_pf_results_for_date a failed or empty Skynet request, or
\* a failed post-race request of one race, does not abort the pass: the
\* outcomes are still attached from the stored results, every race of the
\* date is still asked for, and the pass still commits.
C10_ImportSurvivesFetchFailure ==
    [][ (/\ last'.op = "import_pf_results_for_date"
         /\ last'.log.failed # {})
            => /\ last'.log.raised = None
               /\ last'.log.committed = last'.log.fetched
               /\ \A d \in Range(last'.log.fetched) :
                     /\ last'.log.races =
                           [i \in DOMAIN PfRaces(d) |-> PfRaces(d)[i][2].id]
                     /\ \A t \in TipsOfDate(d) :
                           (\E x \in race_results :
                                /\ x.race_id = t.race_id
                                /\ x.tab_number = t.tab_number)
                              => \E o \in tip_outcomes' : o.tip_id = t.id
      ]_vars

\* the status the classification rule gives a result
RuleStatus(pos, scratched) ==
    IF scratched THEN "SCRATCHED"
    ELSE IF pos = NoneNum THEN "NO_RESULT"
    ELSE IF pos = 1 THEN "WIN"
    ELSE IF pos \in {2, 3} THEN "PLACE"
    ELSE IF pos >= 4 THEN "LOSE"
    ELSE "NO_RESULT"

\* C4: the status written for a result is SCRATCHED if the result is
\* scratched, whatever the position; otherwise WIN for position 1, PLACE for
\* 2 or 3, LOSE for 4 or more, NO_RESULT for no position; for both
\* _tip_outcome_status and _classify_outcome.
C4_StatusRule ==
    (/\ last.op = "classified"
     /\ last.fn \in {"_tip_outcome_status", "_classify_outcome"}
     /\ last.scratched \/ last.pos = NoneNum \/ last.pos >= 1)
        => last.status = RuleStatus(last.pos, last.scratched)

\* C6: a position of zero or below on a result that is not scratched is
\* classified UNKNOWN / NO_RESULT, never WIN, PLACE or LOSE, by each of the
\* three classifiers.
C6_NonPositivePosition ==
    (/\ last.op = "classified"
     /\ ~last.scratched
     /\ last.pos # NoneNum /\ last.pos <= 0)
        => last.status \notin {"WIN", "PLACE", "LOSE"}

\* the store after the two runs one after the other
SerialRuns(job, store, d, r) ==
    IF job = "results_daily_job"
    THEN LET resp == [x \in Dates |-> r]
             first == run_results_for_window(store, d, d, resp)
         IN  run_results_for_window(first.store, d, d, resp).store
    ELSE fetch_results_for_date(
             fetch_results_for_date(store, d, r).store, d, r).store

\* the key of the RaceResult a loop pass of the job looks up
RunnerKey(job, row) ==
    IF job = "results_daily_job"
    THEN <<row.state, row.track, row.race_no, row.tab_number>>
    ELSE <<row.race.id, row.runner.tabNumber>>

\* the feed lists no runner twice
DistinctRunners(job, rows) ==
    \A i, j \in DOMAIN rows :
        RunnerKey(job, rows[i]) = RunnerKey(job, rows[j]) => i = j

\* C8: two runs of a job for the same date whose lookups and inserts
\* interleave, on a feed that lists no runner twice: neither attempts to
\* insert a RaceResult or a TipOutcome whose key is already present, and the
\* final store is the store of the serial execution.
C8_ConcurrentRuns ==
    (/\ last.op = "commit"
     /\ \A p \in RunIds : DistinctRunners(runs[p].job, runs[p].rows)) =>
        /\ ~last.log.dup_result
        /\ ~last.log.dup_outcome
        /\ (\A p \in RunIds : runs[p].pc = "done") =>
              \A p \in RunIds :
                  Store = SerialRuns(runs[p].job, last.start, runs[p].d,
                                     runs[p].resp)

\* the rows of the store that belong to date d: the results of its races
\* and the outcomes of its tips
RowsOfDate(rr, to, d) ==
    [rr |-> { x \in rr : \E r \in Races, m \in Meetings :
                            /\ r.id = x.race_id
                            /\ m.id = r.meeting_id
                            /\ m.date = d },
     to |-> { o \in to : \E t \in TipsOfDate(d) : t.id = o.tip_id }]

\* C11: when the feed returns no row for a date, run_results_for_window
\* creates, modifies and deletes no RaceResult and no TipOutcome of that
\* date (a tip without an outcome stays without one), and a run all of whose
\* fetches returned, each without a row, ends without an error and leaves
\* the store as it was.
C11_EmptyFeedWritesNothing ==
    [][ last'.op = "run_results_for_window" =>
          /\ \A d \in last'.log.empty :
                RowsOfDate(race_results', tip_outcomes', d)
                    = RowsOfDate(race_results, tip_outcomes, d)
          /\ (/\ last'.log.empty = Range(last'.log.fetched)
              /\ last'.log.raised # "HTTPError") =>
                /\ last'.log.raised = None
                /\ race_results' = race_results
                /\ tip_outcomes' = tip_outcomes
      ]_vars

\* a run over a window that holds date 1 found no row for it, while the
\* store holds a result of that date and its tip has no outcome
C11_Witness ==
    /\ last.op = "run_results_for_window"
    /\ 1 \in last.log.empty
    /\ last.log.raised = None
    /\ RowsOfDate(race_results, tip_outcomes, 1).rr # {}
    /\ \E t \in TipsOfDate(1) : \A o \in tip_outcomes : o.tip_id # t.id

\* C12: a TipOutcome whose race_result reference is not null references a
\* stored RaceResult of the race of the outcome's Tip.
C12_OutcomeResultSameRace ==
    \A o \in tip_outcomes :
        o.race_result_id # NoId =>
            \E x \in race_results, t \in Tips :
                /\ x.id = o.race_result_id
                /\ t.id = o.tip_id
                /\ x.race_id = t.race_id

\* an outcome references a result while another race holds a result of the
\* same runner number
C12_Witness ==
    \E o \in tip_outcomes, x \in race_results, t \in Tips :
        /\ o.race_result_id # NoId
        /\ t.id = o.tip_id
        /\ x.race_id # t.race_id
        /\ x.tab_number = t.tab_number

\* C13: after a completed pass of the RA daily job or of the PF import,
\* each TipOutcome the pass wrote references a stored RaceResult (also when
\* that RaceResult was created in the same pass) and carries the finish
\* position and the starting price of that RaceResult.
C13_OutcomeReferencesResult ==
    (/\ last.op \in {"run_results_for_window", "import_pf_results_for_date"}
     /\ last.log.raised = None) =>
        \A w \in last.log.writes :
            \E o \in tip_outcomes, x \in race_results :
                /\ o.tip_id = w.tip_id
                /\ o.race_result_id # NoId
                /\ x.id = o.race_result_id
                /\ x.finish_position = o.finish_position
                /\ x.starting_price = o.starting_price

\* the values of TipOutcome.outcome_status (models.py)
OutcomeStatuses ==
    {"WIN", "PLACE", "LOSE", "SCRATCHED", "NO_RESULT", "PENDING"}

\* C14: every value a pass writes to TipOutcome.outcome_status is one of
\* WIN, PLACE, LOSE, SCRATCHED, NO_RESULT, PENDING.
C14_OutcomeStatusValues ==
    /\ \A o \in tip_outcomes : o.outcome_status \in OutcomeStatuses
    /\ \A w \in last.log.writes : w.status \in OutcomeStatuses

\* an item is well formed: an object whose race number and runner number
\* are numbers
WellFormed(item) ==
    /\ item.obj
    /\ item.race_no \notin {NoneNum, NotANumber}
    /\ item.horse_number \notin {NoneNum, NotANumber}

\* the well-formed items of a payload, in order
RECURSIVE WellFormedItems(_)
WellFormedItems(items) ==
    IF items = <<>> THEN <<>>
    ELSE (IF WellFormed(Head(items)) THEN <<Head(items)>> ELSE <<>>)
         \o WellFormedItems(Tail(items))

\* C15: for a payload with one malformed item (not an object, or with a
\* race number or runner number that is not a number) among well-formed
\* ones, the fetch of RAResultsClient and the fetch of the trends return
\* the rows of every well-formed item and do not raise.
C15_MalformedRowSkipped ==
    (/\ last.op = "fetched"
     /\ Cardinality({ i \in DOMAIN last.items :
                        ~WellFormed(last.items[i]) }) = 1) =>
        /\ last.client.raised = None
        /\ last.client.rows = ParseItems(WellFormedItems(last.items))
        /\ last.trends = FlatResults(WellFormedItems(last.items))

\* C16: after every create_tips_batch and fetch_results_for_date request
\* there is at most one Meeting per (date, track name, state) and at most
\* one Race per (meeting, race number); a request that sights a meeting
\* stored under its (date, track name, state) creates no meeting and does
\* not run into the uniqueness constraints, and no request drops or re-keys
\* a stored meeting or race.
C16_OneMeetingOneRace ==
    [][ last'.op \in {"create_tips_batch", "fetch_results_for_date"} =>
          /\ \A x \in meetings', y \in meetings' :
                (/\ x.date = y.date /\ x.track_name = y.track_name
                 /\ x.state = y.state) => x = y
          /\ \A x \in races', y \in races' :
                (/\ x.meeting_id = y.meeting_id
                 /\ x.race_number = y.race_number) => x = y
          /\ last'.raised \notin
                {"uq_meeting_date_track", "uq_race_meeting_number"}
          /\ (\E x \in meetings :
                 <<x.date, x.track_name, x.state>> = last'.key)
                => Cardinality(meetings') = Cardinality(meetings)
          /\ \A x \in meetings : \E y \in meetings' :
                /\ y.id = x.id /\ y.date = x.date
                /\ y.track_name = x.track_name /\ y.state = x.state
          /\ races \subseteq races'
      ]_vars

C16_Witness ==
    /\ last.op \in {"create_tips_batch", "fetch_results_for_date"}
    /\ last.raised = None
    /\ last.found # 0
    /\ \E x \in tips, y \in tips :
          x.race_id = y.race_id /\ x.tip_run_id # y.tip_run_id

\* C17: no request deletes or rewrites a stored Tip, so every Tip that has
\* a TipOutcome stays stored and every TipOutcome refers to a stored Tip
\* (admin_replace_tips_text included).
C17_TipsNeverDeleted ==
    [][ /\ tips \subseteq tips'
        /\ \A o \in tip_outcomes' : \E t \in tips' : t.id = o.tip_id
      ]_vars


\* what the tips of rows that won at a known price pay: the stake of each
\* (per_unit, times its stake_units if weighted is TRUE) times its price
RECURSIVE WinnersPay(_, _, _)
WinnersPay(rows, per_unit, weighted) ==
    IF rows = <<>> THEN 0
    ELSE WinnersPay(Tail(rows), per_unit, weighted)
         + (IF /\ Head(rows).has /\ Head(rows).status = "WIN"
               /\ Head(rows).starting_price # NoneNum
            THEN Times(per_unit * 100
                         * (IF weighted THEN Head(rows).stake_units ELSE 1),
                       Head(rows).starting_price)
            ELSE 0)

\* the sum of f over the tip types
RECURSIVE SumOver(_, _)
SumOver(f, types) ==
    IF types = {} THEN 0
    ELSE f[CHOOSE ty \in types : TRUE]
         + SumOver(f, types \ {CHOOSE ty \in types : TRUE})

RECURSIVE Staked(_)
Staked(rows) ==
    IF rows = <<>> THEN 0
    ELSE Staked(Tail(rows)) + stake_per_tip * Head(rows).stake_units * 100

\* C19: in _aggregate_rows and in compute_day_rollup every tip counted adds
\* stake-per-unit times its stake_units to the total staked, whatever its
\* outcome and whether or not a price is known.
C19_EveryTipStaked ==
    last.op = "aggregated" =>
        /\ SumOver([ty \in TipTypes |-> last.aggs[ty].total_staked],
                   TipTypes) = Staked(last.rows)
        /\ last.rollup.turnover = Staked(last.rows)

\* the number of the rows of a tip type in types whose status is in statuses
Count(rows, types, statuses) ==
    Cardinality({ i \in DOMAIN rows :
                    /\ rows[i].tip_type \in types
                    /\ rows[i].has
                    /\ rows[i].status \in statuses })

Tipped(rows, types) ==
    Cardinality({ i \in DOMAIN rows : rows[i].tip_type \in types })

\* rate is scale * n / n_tips (and 0 when n_tips is 0)
IsRate(rate, scale, n, n_tips) ==
    IF n_tips = 0 THEN rate[1] = 0
    ELSE rate[1] * n_tips = scale * n * rate[2]

\* C20: the win strike rate is wins / tips and the place strike rate is
\* (wins + seconds + thirds) / tips, up to a constant percentage scaling,
\* for TrendBucket and for the per-tip-type statistics of compute_day_stats
\* and compute_range_stats.
C20_StrikeRates ==
    last.op = "aggregated" =>
        /\ IsRate(last.trend.win_strike_rate, 100,
                  Count(last.rows, TipTypes, {"WIN"}),
                  Tipped(last.rows, TipTypes))
        /\ IsRate(last.trend.place_strike_rate, 100,
                  Count(last.rows, TipTypes, {"WIN", "PLACE"}),
                  Tipped(last.rows, TipTypes))
        /\ \A ty \in TipTypes :
              /\ IsRate(last.stats[ty].win_strike_rate, 1,
                        Count(last.rows, {ty}, {"WIN"}),
                        Tipped(last.rows, {ty}))
              /\ IsRate(last.stats[ty].place_strike_rate, 1,
                        Count(last.rows, {ty}, {"WIN", "PLACE"}),
                        Tipped(last.rows, {ty}))

\* rate is no failed division, and is 0 when n is 0
SafeRate(rate, n) == rate[2] # 0 /\ (n = 0 => rate[1] = 0)

\* C21: ROI is 0 for every bucket whose total staked is 0 and both strike
\* rates are 0 for every bucket with 0 tips; no aggregation (analytics,
\* overview, trends and meeting-best buckets) divides by 0.
C21_NoZeroDivision ==
    last.op = "aggregated" =>
        /\ \A ty \in TipTypes :
              /\ SafeRate(last.stats[ty].roi, last.stats[ty].total_staked)
              /\ SafeRate(last.stats[ty].win_strike_rate, last.stats[ty].tips)
              /\ SafeRate(last.stats[ty].place_strike_rate,
                          last.stats[ty].tips)
        /\ SafeRate(last.overview_rates.roi, last.overview_rates.stakes)
        /\ SafeRate(last.overview_rates.win_sr, last.overview_rates.tips)
        /\ SafeRate(last.overview_rates.place_sr, last.overview_rates.tips)
        /\ SafeRate(last.trend.win_strike_rate, last.trend.tips)
        /\ SafeRate(last.trend.place_strike_rate, last.trend.tips)

C21_Witness ==
    /\ last.op = "aggregated"
    /\ \E ty \in TipTypes : last.stats[ty].tips = 0
    /\ \E ty \in TipTypes :
          last.stats[ty].tips > 0 /\ last.stats[ty].total_staked = 0
    /\ last.overview_rates.stakes > 0

\* C25: a list served from the cache for a date was stored by a fetch of
\* that date that got through, less than the TTL earlier; a fetch that
\* failed stores nothing; while an entry of the date is younger than the
\* TTL a read of the date asks the crawler nothing.
C25_CacheWithinTtl ==
    [][ /\ \A d \in DOMAIN results_cache' :
              \/ /\ d \in DOMAIN results_cache
                 /\ results_cache'[d] = results_cache[d]
              \/ /\ last'.op = "fetch" /\ last'.d = d
                 /\ ~last'.from_cache /\ last'.ok
                 /\ results_cache'[d] =
                       [timestamp |-> clock', results |-> last'.returned]
        /\ DOMAIN results_cache \subseteq DOMAIN results_cache'
        /\ (last' # last /\ last'.op = "fetch") =>
              /\ last'.from_cache =>
                    /\ last'.d \in DOMAIN results_cache
                    /\ results_cache[last'.d].timestamp <= clock
                    /\ clock - results_cache[last'.d].timestamp
                          < _CACHE_TTL_SECONDS
                    /\ last'.returned = results_cache[last'.d].results
                    /\ last'.calls = 0
              /\ (/\ last'.d \in DOMAIN results_cache
                  /\ clock - results_cache[last'.d].timestamp
                        < _CACHE_TTL_SECONDS) => last'.from_cache
              /\ ~last'.ok => results_cache' = results_cache
      ]_vars

C25_Witness ==
    /\ last.op = "fetch"
    /\ last.from_cache
    /\ clock - results_cache[last.d].timestamp > TickSeconds
    /\ \E d \in DOMAIN results_cache :
          clock - results_cache[d].timestamp >= _CACHE_TTL_SECONDS

\* C28: the list the fetch returns holds only the rows of an attempt that
\* got through: it is empty if all attempts failed, and otherwise it is the
\* rows of the answer that got through, each once.
C28_OnlySuccessfulAttempt ==
    (last.op = "fetch" /\ ~last.from_cache) =>
        last.returned =
            IF last.ok THEN FlatResults(last.answers[last.calls].items)
            ELSE <<>>

\* C24: each of the two matchers of track names gives the same answer for
\* (a, b) as for (b, a), whatever the names, an empty name included.
C24_MatchSymmetric ==
    last.op = "matched" =>
        /\ last.generator = last.generator_swapped
        /\ last.meeting_best = last.meeting_best_swapped

C24_Witness ==
    /\ last.op = "matched"
    /\ last.a = <<>> /\ last.b = RosehillGardens
    /\ last.meeting_best /\ ~last.generator

C24_WitnessVariation ==
    /\ last.op = "matched"
    /\ last.a = SandownLakeside /\ last.b = SandownHillside
    /\ last.meeting_best /\ ~last.generator

C24_WitnessSponsor ==
    /\ last.op = "matched"
    /\ last.a = Kyneton /\ last.b = Bet365ParkKyneton
    /\ last.meeting_best /\ last.generator

\* the stored results of the (race, runner number) of a tip
ResultsOfTip(t) ==
    { x \in race_results : x.race_id = t.race_id /\ x.tab_number = t.tab_number }

\* of the results of a tip, those of the provider that comes first
Preferred(rows) ==
    IF \E x \in rows : x.provider = "PF"
    THEN { x \in rows : x.provider = "PF" }
    ELSE IF \E x \in rows : x.provider = "RA"
    THEN { x \in rows : x.provider = "RA" }
    ELSE rows

\* C26: the outcome the attach creates for a tip is derived from the PF
\* result of the tip's race and runner number if there is one, else from
\* the RA one, else from one of another provider, whatever the order in
\* which the stored results were read.
C26_AttachPrefersPfThenRa ==
    [][ last'.op = "attach" =>
          \A o \in tip_outcomes' \ tip_outcomes :
              \E t \in tips :
                  /\ t.id = o.tip_id
                  /\ \E x \in Preferred(ResultsOfTip(t)) :
                        /\ o.race_result_id = x.id
                        /\ o.provider = x.provider
                        /\ o.finish_position = x.finish_position
                        /\ o.starting_price = x.starting_price
                        /\ o.outcome_status
                              = _classify_outcome(x.finish_position)
      ]_vars

C26_Witness ==
    /\ last.op = "attach"
    /\ Cardinality(ResultsOfTip(CHOOSE t \in tips : t.id = "t1")) = 4
    /\ \E o \in tip_outcomes : o.tip_id = "t1" /\ o.provider = "PF"

C26_WitnessRa ==
    /\ last.op = "attach"
    /\ Cardinality(ResultsOfTip(CHOOSE t \in tips : t.id = "t1")) = 3
    /\ \E o \in tip_outcomes : o.tip_id = "t1" /\ o.race_result_id # NoId
                               /\ o.provider = "RA"

C26_WitnessOther ==
    /\ last.op = "attach"
    /\ Cardinality(ResultsOfTip(CHOOSE t \in tips : t.id = "t1")) = 2
    /\ \E o \in tip_outcomes : o.tip_id = "t1" /\ o.provider = "TAB"

\* C27: the attach leaves the outcome of a tip that has one as it is,
\* creates no outcome for a tip that has no stored result for its race and
\* runner number, and changes no other row.
C27_AttachFrame ==
    [][ last'.op = "attach" =>
          /\ tip_outcomes \subseteq tip_outcomes'
          /\ \A o \in tip_outcomes' \ tip_outcomes :
                /\ \A e \in tip_outcomes : e.tip_id # o.tip_id
                /\ \E t \in tips : t.id = o.tip_id /\ ResultsOfTip(t) # {}
          /\ race_results' = race_results
          /\ UNCHANGED catalogue
      ]_vars

C27_Witness ==
    /\ last.op = "attach"
    /\ last.log.committed # <<>>
    /\ \E o \in tip_outcomes : o.tip_id = "t1" /\ o \notin StoredOutcomes
    /\ \E x \in race_results : x.race_id = "r2"
    /\ \E x \in race_results : x.tab_number = 5

C27_WitnessKept ==
    /\ last.op = "attach"
    /\ tip_outcomes = StoredOutcomes
    /\ \E x \in race_results : x.provider = "PF" /\ x.race_id = "r1"
                               /\ x.tab_number = 4

\* the dates of a window, in ascending order
WindowDates(date_from, date_to) ==
    [i \in 1..(date_to - date_from + 1) |-> date_from + i - 1]

\* C29: run_results_for_window ends for every pair of dates; given a
\* date_to before date_from it fetches nothing and writes nothing;
\* otherwise it fetches each date of the window once, in ascending order,
\* and commits each date that returned rows before it goes on.
C29_WindowEachDateOnce ==
    [][ last'.op = "run_results_for_window" =>
          IF last'.date_to < last'.date_from
          THEN /\ last'.log.fetched = <<>>
               /\ last'.log.committed = <<>>
               /\ race_results' = race_results
               /\ tip_outcomes' = tip_outcomes
          ELSE /\ last'.log.fetched
                     = WindowDates(last'.date_from, last'.date_to)
               /\ \A d \in Range(last'.log.fetched) :
                     d \in Range(last'.log.committed)
                        <=> d \notin last'.log.empty
               /\ \A i, j \in DOMAIN last'.log.committed :
                     i < j => last'.log.committed[i] < last'.log.committed[j]
      ]_vars

\* the tips of the window of the last compute_trends
TipsOfWindow ==
    { t \in tips : \E r \in races, m \in meetings :
                      /\ t.race_id = r.id /\ r.meeting_id = m.id
                      /\ last.date_from <= m.date /\ m.date <= last.date_to }

\* C30: compute_trends counts every tip of the window once, as processed,
\* scratched or without result; every processed tip adds one to one bucket
\* of each of the eight dimensions; in every bucket the wins, seconds and
\* thirds together are at most the tips.
C30_TipsCountedOnce ==
    last.op = "compute_trends" =>
        /\ last.trends.acc.total_tips + last.trends.acc.scratched_tips
              + last.trends.acc.no_result_tips = Cardinality(TipsOfWindow)
        /\ last.trends.acc.matched_tips
              = last.trends.acc.total_tips + last.trends.acc.scratched_tips
        /\ \A dim \in Dimensions :
              /\ SumOf(last.trends.acc.by[dim], "tips")
                    = last.trends.acc.total_tips
              /\ \A i \in DOMAIN last.trends.acc.by[dim] :
                    /\ last.trends.acc.by[dim][i].wins
                          + last.trends.acc.by[dim][i].seconds
                          + last.trends.acc.by[dim][i].thirds
                          <= last.trends.acc.by[dim][i].tips
                    /\ \A j \in DOMAIN last.trends.acc.by[dim] :
                          last.trends.acc.by[dim][i].label
                             = last.trends.acc.by[dim][j].label => i = j

C30_Witness ==
    /\ last.op = "compute_trends"
    /\ last.trends.acc.total_tips >= 5
    /\ last.trends.acc.scratched_tips > 0
    /\ last.trends.acc.no_result_tips > 0
    /\ Len(last.trends.acc.by["by_price"]) >= 4

\* C22: a bucket of fewer than 5 tips is in none of the per-dimension lists
\* compute_trends returns, and the 'overall' entry still counts its tips,
\* wins, seconds and thirds: overall.tips is the number of processed tips.
C22_SmallBucketsOnlyInTotals ==
    (last.op = "compute_trends" /\ last.trends.out.has_data) =>
        /\ last.trends.out.overall.tips = last.trends.acc.total_tips
        /\ \A dim \in Dimensions :
              /\ \A f \in {"tips", "wins", "seconds", "thirds"} :
                    last.trends.out.overall[f]
                       = SumOf(last.trends.acc.by[dim], f)
              /\ \A i \in DOMAIN last.trends.acc.by[dim] :
                    last.trends.acc.by[dim][i].tips >= min_bucket_tips
                       <=> \E k \in DOMAIN last.trends.out.by[dim] :
                              /\ last.trends.out.by[dim][k].label
                                    = last.trends.acc.by[dim][i].label
                              /\ last.trends.out.by[dim][k].tips
                                    = last.trends.acc.by[dim][i].tips
              /\ Len(last.trends.out.by[dim])
                    <= Len(last.trends.acc.by[dim])

C22_Witness ==
    /\ last.op = "compute_trends"
    /\ last.trends.out.has_data
    /\ Len(last.trends.out.by["by_tip_type"]) = 1
    /\ \E i \in DOMAIN last.trends.acc.by["by_tip_type"] :
          /\ last.trends.acc.by["by_tip_type"][i].tips < min_bucket_tips
          /\ last.trends.acc.by["by_tip_type"][i].seconds > 0
    /\ last.trends.out.by["by_price"] = <<>>

\* C23: compute_trends over a window every results fetch of which fails, or
\* in which no tip matches a result, returns has_data = false.
C23_NoDataWithoutResults ==
    (/\ last.op = "compute_trends"
     /\ \/ /\ DaysOf(last.date_from, last.date_to) # {}
           /\ last.failed = DaysOf(last.date_from, last.date_to)
        \/ last.trends.acc.matched_tips = 0)
        => ~last.trends.out.has_data
====
